---- MODULE Spec2Model ----
(***************************************************************************)
(* A model of sentence-miner (amfajar/sentence-miner).                     *)
(*                                                                         *)
(* Part I  - the known-word cache of src/pipeline/anki.py and its callers  *)
(*           in src/api.py (initialize, scan_candidates,                   *)
(*           test_anki_connection): specifications Spec and SpecLock.      *)
(* Part II - the mining pass of src/api.py (_process_thread): card         *)
(*           assembly and Batch Commit: specification SpecMine.            *)
(*                                                                         *)
(* The settings fields api.py reads but src/settings.py does not declare   *)
(* (known_word_targets, allow_duplicates, use_word_audio) are taken as     *)
(* configuration values.                                                   *)
(***************************************************************************)
EXTENDS Integers, Sequences, FiniteSets, TLC

(***************************************************************************)
(* Bounds and program constants                                            *)
(***************************************************************************)
\* Largest number of notes the remote store ever holds.
MaxNotes == 6

\* The first FreeNotes notes are of any kind; the later ones are words added to
\* the first target collection (the cards the user keeps mining).
FreeNotes == 3

\* Number of initialize() calls (each launches one background refresh).
MaxInits == 2

\* anki.py:270  abs(delta) < 5
SmallThreshold == 5

(***************************************************************************)
(* The remote store (AnkiConnect).  A note has an identifier (its index in *)
(* the sequence: identifiers grow with creation time), a note type and its *)
(* field values.  A field value is 0 (blank) or a word; the word held by   *)
(* note i is i itself, so distinct notes hold distinct words.              *)
(***************************************************************************)
Types == {"A", "B"}

Fields == {"Word", "Expr"}

\* settings.known_word_targets: [note_type, field] pairs.
KnownWordTargets == << <<"A", "Word">>, <<"B", "Expr">> >>

\* The default of get_all_known_expressions(targets=None), used by scan_candidates.
\* The configuration studied keeps the settings targets equal to the defaults.
DefaultTargets == KnownWordTargets

\* The shapes of note the user creates in Anki.
NoteKinds == {"A_word", "A_blank", "B_expr"}

NewNote(kind, id) ==
    CASE kind = "A_word"  -> [type |-> "A", fields |-> [f \in Fields |-> IF f = "Word" THEN id ELSE 0]]
      [] kind = "A_blank" -> [type |-> "A", fields |-> [f \in Fields |-> 0]]
      [] kind = "B_expr"  -> [type |-> "B", fields |-> [f \in Fields |-> IF f = "Expr" THEN id ELSE 0]]

NoteIds == 1..(MaxNotes + 1)

BgIds == {"bg"}

Callers == BgIds \cup {"scan", "test"}

VARIABLES
    \* ---- environment
    remote,        \* sequence of notes; note id = index
    reachable,     \* whether AnkiConnect answers
    cacheFile,     \* ~/.sentence_miner_cache/known_words.json
    \* ---- Api object
    known_words,   \* Api._known_words
    \* ---- anki module
    fetch_lock,    \* _fetch_lock: "free" or the caller holding it
    \* ---- threads
    uiPc,          \* initialize(): "idle" | "fast"
    inits,         \* initialize() calls made so far
    bg,            \* [BgIds -> frame of get_known_expressions_fast._refresh]
    scanPc,        \* scan_candidates (lines 737-743): "idle" | "call" | "ret"
    testPc,        \* test_anki_connection: "idle" | "call" | "ret"
    g,             \* [Callers -> frame of get_all_known_expressions]
    \* ---- observation of the run (history)
    uiRequests,    \* remote requests issued by the thread running initialize()
    \* ---- the mining pass (Api.start_processing, Api._process_thread)
    settings,      \* Api._settings: allow_duplicates, use_word_audio
    running,       \* Api._running
    passes,        \* mining passes started so far
    pPc,           \* position of _process_thread
    payload,       \* input_type, and whether the media file is audio only
    idx,           \* index of the sentence the scan loop is at
    results,       \* the candidates, in insertion order, each with its best sentence
    existing_media,   \* names listed by getMediaFilesNames
    use_direct_write, \* bool(media_dir)
    ci,            \* index of the candidate the assembly loop is at
    pending,       \* sequence of [lemma, fields]
    tasks,         \* extraction and fetch tasks submitted and not finished
    upload_queue,  \* items put on upload_queue and not handled
    note_ids,      \* what add_notes_batch returned
    ri,            \* index of the Phase 3 loop
    added,         \* counter
    skipped_known, \* counter
    event,         \* the terminal event pushed by the pass
    \* ---- observation of the pass (history)
    submitted,     \* artifact names an extraction or fetch was started for
    addNotesCalls, \* addNotes requests sent by the pass
    reply,         \* what the remote store answered to addNotes
    \* ---- the scan path (Api.scan_candidates, Api.add_single_card)
    scan_input,    \* the sentences of the source being scanned, tokenized
    freq_dict,     \* Api._freq_dict: lemma -> rank (Unranked when absent)
    jitendex,      \* Api._jitendex: the lemmas the dictionary has an entry for
    scan_cache,    \* Api._scan_cache: lemma -> what add_single_card needs
    scan_ret,      \* what the last scan_candidates call returned
    add_ret,       \* what the last add_single_card call returned
    \* ---- observation of add_single_card (history)
    addRequests,   \* remote requests issued by the last add_single_card call
    \* ---- a call of one of the pure functions of the pipeline
    call,          \* [fn, the arguments, done, the result]
    \* ---- calls and threads that run side by side
    adders,        \* [AddThreads -> frame of one Api.add_single_card call]
    procs          \* [ProcIds -> frame of one _process_thread thread]

cacheVars == <<remote, reachable, cacheFile, known_words, fetch_lock, uiPc, inits,
               bg, scanPc, testPc, g, uiRequests>>

mineVars == <<settings, running, passes, pPc, payload, idx, results, existing_media,
              use_direct_write, ci, pending, tasks, upload_queue, note_ids, ri, added,
              skipped_known, event, submitted, addNotesCalls, reply>>

scanVars == <<scan_input, freq_dict, jitendex, scan_cache, scan_ret, add_ret, addRequests>>

pureVars == <<call>>

raceVars == <<adders, procs>>

vars == <<cacheVars, mineVars, scanVars, pureVars, raceVars>>

(***************************************************************************)
(* Pure helpers                                                            *)
(***************************************************************************)
Abs(x) == IF x < 0 THEN -x ELSE x

SetMax(S) == IF S = {} THEN 0 ELSE CHOOSE m \in S : \A x \in S : x <= m

\* findNotes query note:"<type>"
FindNotes(type) == {i \in DOMAIN remote : remote[i].type = type}

\* findNotes query note:"t1" OR note:"t2" ...
FindNotesAny(targets) == {i \in DOMAIN remote : \E k \in DOMAIN targets : remote[i].type = targets[k][1]}

\* _extract_field_value: '' (0) when the field is missing or blank
ExtractFieldValue(note, field_name) == note.fields[field_name]

NoCache == [present |-> FALSE, readable |-> FALSE, words |-> {}, note_count |-> 0, max_note_id |-> 0]

\* _load_cache: (set(), 0, 0) when the file is absent or cannot be parsed
LoadCache ==
    IF cacheFile.present /\ cacheFile.readable
    THEN [words |-> cacheFile.words, count |-> cacheFile.note_count, max_id |-> cacheFile.max_note_id]
    ELSE [words |-> {}, count |-> 0, max_id |-> 0]

\* _save_cache
SaveCache(words, note_count, max_note_id) ==
    [present |-> TRUE, readable |-> TRUE, words |-> words,
     note_count |-> note_count, max_note_id |-> max_note_id]

(***************************************************************************)
(* Frames                                                                  *)
(***************************************************************************)
\* incremental_ids: {note_type: [ids]}; a type without an entry maps to {}.
NoInc == [t \in Types |-> {}]

NoRes == [set |-> FALSE, words |-> {}, mid |-> 0]

\* The frame of one get_all_known_expressions call.  infoIds, failed, saved and
\* waited record what the call did: the ids it passed to notesInfo, the types whose
\* fetch failed, whether it wrote the cache file, whether it found _fetch_lock
\* held by another call while it was at the with statement.
IdleG == [pc |-> "none", targets |-> <<>>, inc |-> NoInc, base |-> {}, pending |-> {},
          res |-> [t \in Types |-> NoRes], ret |-> [words |-> {}, max_id |-> 0],
          infoIds |-> {}, failed |-> {}, saved |-> FALSE, waited |-> FALSE]

\* The frame of one _refresh thread.
\* cached: the closure's cached_words, cached_count, cached_max_id; k, inc: the loop
\* of lines 285-289; delta, outcome, callbacks: what the refresh computed and did.
IdleBg == [pc |-> "off", cached |-> [words |-> {}, count |-> 0, max_id |-> 0],
           k |-> 1, inc |-> NoInc, delta |-> 0, outcome |-> "none", callbacks |-> 0]

(***************************************************************************)
(* _fetch_lock                                                             *)
(***************************************************************************)
CanAcquireUnlocked == TRUE

\* with _fetch_lock: the lock is taken only when no caller holds it
CanAcquire == fetch_lock = "free"

(***************************************************************************)
(* _fetch_expressions_for_type(url, note_type, field_name, only_ids)       *)
(* only = {} stands for only_ids = None (the full fetch of the type).      *)
(* Any failing request gives (set(), 0).                                   *)
(***************************************************************************)
FetchExpressionsForType(note_type, field_name, only) ==
    IF ~reachable
    THEN [words |-> {}, mid |-> 0, ok |-> FALSE, asked |-> {}]
    ELSE LET type_ids == IF only = {} THEN FindNotes(note_type) ELSE only
             vals == {ExtractFieldValue(remote[i], field_name) : i \in type_ids \cap DOMAIN remote}
         IN  [words |-> vals \ {0}, mid |-> SetMax(type_ids), ok |-> TRUE, asked |-> type_ids]

(***************************************************************************)
(* get_all_known_expressions                                               *)
(***************************************************************************)
Enter(th, targets, inc, base) ==
    g' = [g EXCEPT ![th] = [IdleG EXCEPT !.pc = "wait", !.targets = targets,
                                         !.inc = inc, !.base = base,
                                         !.waited = (fetch_lock # "free")]]

\* with _fetch_lock: ... start one thread per target
Acquire(th) ==
    /\ g[th].pc = "wait"
    /\ CanAcquire
    /\ fetch_lock' = th
    /\ g' = [x \in Callers |->
               IF x = th
               THEN [g[x] EXCEPT !.pc = "fetch", !.pending = DOMAIN g[th].targets]
               ELSE IF g[x].pc = "wait" THEN [g[x] EXCEPT !.waited = TRUE] ELSE g[x]]
    /\ UNCHANGED <<remote, reachable, cacheFile, known_words, uiPc, inits, bg, scanPc,
                   testPc, uiRequests,
                   mineVars, scanVars, pureVars, raceVars>>

\* one per-target thread: _run(note_type, field_name, only_ids)
FetchType(th) ==
    /\ g[th].pc = "fetch"
    /\ \E i \in g[th].pending :
         LET nt == g[th].targets[i][1]
             fld == g[th].targets[i][2]
             r == FetchExpressionsForType(nt, fld, g[th].inc[nt])
         IN  /\ g' = [g EXCEPT ![th].pending = @ \ {i},
                               ![th].res[nt] = [set |-> TRUE, words |-> r.words, mid |-> r.mid],
                               ![th].infoIds = @ \cup r.asked,
                               ![th].failed = @ \cup (IF r.ok THEN {} ELSE {nt})]
    /\ UNCHANGED <<remote, reachable, cacheFile, known_words, fetch_lock, uiPc, inits,
                   bg, scanPc, testPc, uiRequests,
                   mineVars, scanVars, pureVars, raceVars>>

RECURSIVE SumCard(_, _)
SumCard(res, ts) ==
    IF ts = {} THEN 0
    ELSE LET t == CHOOSE x \in ts : TRUE
         IN  Cardinality(res[t].words) + SumCard(res, ts \ {t})

\* the merge of per_type_results into (expressions, total_notes, global_max_id)
MergeResults(base, res) ==
    LET done == {t \in Types : res[t].set}
    IN  [expressions |-> base \cup UNION {res[t].words : t \in done},
         total_notes |-> SumCard(res, done),
         global_max_id |-> SetMax({res[t].mid : t \in done})]

\* all threads joined: merge, _save_cache, release the lock, return
Merge(th) ==
    /\ g[th].pc = "fetch"
    /\ g[th].pending = {}
    /\ LET m == MergeResults(g[th].base, g[th].res)
       IN  /\ cacheFile' = SaveCache(m.expressions, m.total_notes, m.global_max_id)
           /\ g' = [g EXCEPT ![th] = [IdleG EXCEPT !.pc = "returned", !.saved = TRUE,
                             !.failed = g[th].failed,
                             !.ret = [words |-> m.expressions, max_id |-> m.global_max_id]]]
    /\ fetch_lock' = "free"
    /\ UNCHANGED <<remote, reachable, known_words, uiPc, inits, bg, scanPc, testPc, uiRequests,
                   mineVars, scanVars, pureVars, raceVars>>

(***************************************************************************)
(* Api.initialize (the Anki part) and get_known_expressions_fast           *)
(***************************************************************************)
\* check_connection, get_deck_names, get_model_names
InitCheck ==
    /\ uiPc = "idle"
    /\ inits < MaxInits
    /\ \A b \in BgIds : bg[b].pc \in {"off", "done"}
    /\ reachable
    /\ uiPc' = "fast"
    /\ uiRequests' = 3
    /\ UNCHANGED <<remote, reachable, cacheFile, known_words, fetch_lock, inits, bg,
                   scanPc, testPc, g,
                   mineVars, scanVars, pureVars, raceVars>>

\* What get_known_expressions_fast does in the calling thread: the value it
\* returns, the threads it starts, the remote requests it issues.
FastSynchronous ==
    [returned |-> IF reachable THEN LoadCache.words ELSE {},
     launch |-> LoadCache.words = {}, calls |-> 1]

GetKnownExpressionsFast ==
    [returned |-> LoadCache.words, launch |-> TRUE, calls |-> 0]

Fast ==
    /\ uiPc = "fast"
    /\ LET f == GetKnownExpressionsFast
       IN  /\ known_words' = f.returned
           /\ uiRequests' = uiRequests + f.calls
           /\ bg' = [b \in BgIds |->
                       IF f.launch THEN [IdleBg EXCEPT !.pc = "count", !.cached = LoadCache]
                       ELSE bg[b]]
           /\ g' = [th \in Callers |-> IF th \in BgIds /\ f.launch THEN IdleG ELSE g[th]]
    /\ uiPc' = "idle"
    /\ inits' = inits + 1
    /\ UNCHANGED <<remote, reachable, cacheFile, fetch_lock, scanPc, testPc,
                   mineVars, scanVars, pureVars, raceVars>>

(***************************************************************************)
(* get_known_expressions_fast._refresh                                     *)
(***************************************************************************)
\* The branch taken for a count of current_count notes (lines 268-299).
RefreshBranchExact(cached, all_ids) ==
    LET delta == Cardinality(all_ids) - cached.count
    IN  IF delta = 0 /\ cached.words # {} THEN "unchanged"
        ELSE IF delta > 0 /\ cached.words # {} /\ cached.max_id > 0
             THEN (IF {i \in all_ids : i > cached.max_id} = {} THEN "nonew" ELSE "incremental")
             ELSE "full"

RefreshBranchOffByOne(cached, all_ids) ==
    LET delta == Cardinality(all_ids) - cached.count
    IN  IF Abs(delta) < SmallThreshold - 1 /\ cached.words # {} THEN "unchanged"
        ELSE IF delta > 0 /\ cached.words # {} /\ cached.max_id > 0
             THEN (IF {i \in all_ids : i > cached.max_id} = {} THEN "nonew" ELSE "incremental")
             ELSE "full"

RefreshBranch(cached, all_ids) ==
    LET delta == Cardinality(all_ids) - cached.count
    IN  IF Abs(delta) < SmallThreshold /\ cached.words # {} THEN "unchanged"
        ELSE IF delta > 0 /\ cached.words # {} /\ cached.max_id > 0
             THEN (IF {i \in all_ids : i > cached.max_id} = {} THEN "nonew" ELSE "incremental")
             ELSE "full"

\* What the refresh does when the count query fails (lines 264-266).
OnUnreachableCallback(b) ==
    /\ bg' = [bg EXCEPT ![b].pc = "done", ![b].outcome = "skipped", ![b].callbacks = @ + 1]
    /\ known_words' = bg[b].cached.words
    /\ UNCHANGED g

OnUnreachable(b) ==
    /\ bg' = [bg EXCEPT ![b].pc = "done", ![b].outcome = "skipped"]
    /\ UNCHANGED <<known_words, g>>

\* the combined count query and the choice of the path
BgCount(b) ==
    /\ bg[b].pc = "count"
    /\ IF ~reachable
       THEN OnUnreachable(b)
       ELSE LET all_ids == FindNotesAny(KnownWordTargets)
                delta == Cardinality(all_ids) - bg[b].cached.count
                br == RefreshBranch(bg[b].cached, all_ids)
            IN  /\ bg' = [bg EXCEPT ![b].delta = delta,
                                    ![b].outcome = br,
                                    ![b].pc = CASE br = "incremental" -> "permap"
                                                [] br = "full" -> "call"
                                                [] OTHER -> "done"]
                /\ IF br = "full" THEN Enter(b, KnownWordTargets, NoInc, {}) ELSE UNCHANGED g
                /\ UNCHANGED known_words
    /\ UNCHANGED <<remote, reachable, cacheFile, fetch_lock, uiPc, inits, scanPc, testPc,
                   uiRequests,
                   mineVars, scanVars, pureVars, raceVars>>

\* incremental: one findNotes per target, keeping the ids above the cached mark
BgPerType(b) ==
    /\ bg[b].pc = "permap"
    /\ IF ~reachable
       THEN /\ bg' = [bg EXCEPT ![b].pc = "done", ![b].outcome = "failed",
                                ![b].inc = NoInc, ![b].k = 1]
            /\ UNCHANGED g
       ELSE LET nt == KnownWordTargets[bg[b].k][1]
                new_for_type == {i \in FindNotes(nt) : i > bg[b].cached.max_id}
                inc == [bg[b].inc EXCEPT ![nt] = IF new_for_type # {} THEN new_for_type ELSE @]
            IN  IF bg[b].k < Len(KnownWordTargets)
                THEN /\ bg' = [bg EXCEPT ![b].k = @ + 1, ![b].inc = inc]
                     /\ UNCHANGED g
                ELSE /\ bg' = [bg EXCEPT ![b].inc = NoInc, ![b].k = 1, ![b].pc = "call"]
                     /\ Enter(b, KnownWordTargets, inc, bg[b].cached.words)
    /\ UNCHANGED <<remote, reachable, cacheFile, known_words, fetch_lock, uiPc, inits,
                   scanPc, testPc, uiRequests,
                   mineVars, scanVars, pureVars, raceVars>>

\* if on_refresh_done and new_words: on_refresh_done(new_words)   (Api._on_refresh)
BgReturn(b) ==
    /\ bg[b].pc = "call"
    /\ g[b].pc = "returned"
    /\ LET new_words == g[b].ret.words
       IN  IF new_words # {}
           THEN /\ known_words' = new_words
                /\ bg' = [bg EXCEPT ![b].pc = "done", ![b].callbacks = @ + 1]
           ELSE /\ bg' = [bg EXCEPT ![b].pc = "done"]
                /\ UNCHANGED known_words
    /\ g' = [g EXCEPT ![b] = IdleG]
    /\ UNCHANGED <<remote, reachable, cacheFile, fetch_lock, uiPc, inits, scanPc, testPc,
                   uiRequests,
                   mineVars, scanVars, pureVars, raceVars>>

(***************************************************************************)
(* Api.scan_candidates, lines 737-743                                      *)
(***************************************************************************)
ScanCall ==
    /\ scanPc = "idle"
    /\ scanPc' = "call"
    /\ Enter("scan", DefaultTargets, NoInc, {})
    /\ UNCHANGED <<remote, reachable, cacheFile, known_words, fetch_lock, uiPc, inits,
                   bg, testPc, uiRequests,
                   mineVars, scanVars, pureVars, raceVars>>

ScanReturn ==
    /\ scanPc = "call"
    /\ g["scan"].pc = "returned"
    /\ known_words' = IF g["scan"].ret.words # {} THEN g["scan"].ret.words ELSE known_words
    /\ scanPc' = "idle"
    /\ g' = [g EXCEPT !["scan"] = IdleG]
    /\ UNCHANGED <<remote, reachable, cacheFile, fetch_lock, uiPc, inits, bg, testPc,
                   uiRequests,
                   mineVars, scanVars, pureVars, raceVars>>

(***************************************************************************)
(* Api.test_anki_connection                                                *)
(***************************************************************************)
TestCall ==
    /\ testPc = "idle"
    /\ reachable
    /\ known_words = {}
    /\ testPc' = "call"
    /\ Enter("test", KnownWordTargets, NoInc, {})
    /\ UNCHANGED <<remote, reachable, cacheFile, known_words, fetch_lock, uiPc, inits,
                   bg, scanPc, uiRequests,
                   mineVars, scanVars, pureVars, raceVars>>

TestReturn ==
    /\ testPc = "call"
    /\ g["test"].pc = "returned"
    /\ known_words' = g["test"].ret.words
    /\ testPc' = "idle"
    /\ g' = [g EXCEPT !["test"] = IdleG]
    /\ UNCHANGED <<remote, reachable, cacheFile, fetch_lock, uiPc, inits, bg, scanPc,
                   uiRequests,
                   mineVars, scanVars, pureVars, raceVars>>

(***************************************************************************)
(* The environment: the user's Anki collection, the network, the disk      *)
(***************************************************************************)
\* Nothing of the application is in the middle of a remote conversation.
Quiescent ==
    /\ uiPc = "idle"
    /\ scanPc = "idle"
    /\ testPc = "idle"
    /\ \A b \in BgIds : bg[b].pc \in {"off", "done"}

\* The user adds a note in Anki (between two reconciliations of the application).
AddNote ==
    /\ Len(remote) < MaxNotes
    /\ Quiescent
    /\ \E kind \in NoteKinds :
         /\ Len(remote) >= FreeNotes => kind = "A_word"
         /\ remote' = Append(remote, NewNote(kind, Len(remote) + 1))
    /\ UNCHANGED <<reachable, cacheFile, known_words, fetch_lock, uiPc, inits, bg,
                   scanPc, testPc, g, uiRequests,
                   mineVars, scanVars, pureVars, raceVars>>

\* AnkiConnect goes away while the application talks to it, and comes back.
SetReachable ==
    /\ ~Quiescent \/ ~reachable
    /\ reachable' = ~reachable
    /\ UNCHANGED <<remote, cacheFile, known_words, fetch_lock, uiPc, inits, bg, scanPc,
                   testPc, g, uiRequests,
                   mineVars, scanVars, pureVars, raceVars>>

\* the cache file is damaged on disk (json.load fails on it)
DamageCache ==
    /\ cacheFile.present
    /\ cacheFile.readable
    /\ cacheFile' = [NoCache EXCEPT !.present = TRUE]
    /\ UNCHANGED <<remote, reachable, known_words, fetch_lock, uiPc, inits, bg, scanPc,
                   testPc, g, uiRequests,
                   mineVars, scanVars, pureVars, raceVars>>

(***************************************************************************)
(* Part II - the mining pass: Api.start_processing, Api.stop_processing    *)
(* and Api._process_thread.  The model follows one pass at a time.         *)
(***************************************************************************)
\* Number of mining passes started.
MaxPasses == 2

\* The lemmas of the source text; they are words of the kind known_words holds.
Lemmas == {1, 2}

\* The source: one sentence per element, named by the lemma it mentions.
Sentences == <<1, 2, 1>>

\* clip (sm_<lemma>_<uid>_clip.mp3), frame (sm_<lemma>_<uid>_frame.jpg) and word
\* audio (sm_word_<lemma>_<uid>.mp3)
Kinds == {"clip", "frame", "word"}

ArtifactName(kind, lemma) == <<kind, lemma>>

\* The listings getMediaFilesNames may give: what earlier passes left behind.
Listings ==
    {{ArtifactName(k, l) : k \in K, l \in L} : K \in SUBSET Kinds, L \in {{1}, Lemmas}}

\* A blank field ('').
Blank == <<>>

\* The rejected marker of addNotes (None), and an assigned note identifier.
None == <<>>

IdOf(lemma) == <<"id", lemma>>

NoReply == [kind |-> "none", accepted |-> {}]

cacheRest == <<remote, reachable, cacheFile, fetch_lock, uiPc, inits, bg, scanPc, testPc,
               g, uiRequests>>

Min(a, b) == IF a <= b THEN a ELSE b

SeqContains(sq, x) == \E k \in DOMAIN sq : sq[k] = x

\* start_processing: a new thread unless a pass is marked running
StartProcessing ==
    /\ ~running
    /\ pPc \in {"off", "ended"}
    /\ passes < MaxPasses
    /\ passes' = passes + 1
    /\ pPc' = "spawned"
    /\ \E it \in {"media", "text"} : \E ao \in BOOLEAN :
         /\ ao => it = "media"
         /\ payload' = [input_type |-> it, audio_only |-> ao]
    /\ UNCHANGED <<settings, running, idx, results, existing_media, use_direct_write, ci,
                   pending, tasks, upload_queue, note_ids, ri, added, skipped_known,
                   event, submitted, addNotesCalls, reply, known_words, cacheRest, scanVars, pureVars, raceVars>>

\* stop_processing
StopProcessing ==
    /\ running
    /\ running' = FALSE
    /\ UNCHANGED <<settings, passes, pPc, payload, idx, results, existing_media,
                   use_direct_write, ci, pending, tasks, upload_queue, note_ids, ri,
                   added, skipped_known, event, submitted, addNotesCalls, reply,
                   known_words, cacheRest, scanVars, pureVars, raceVars>>

\* _process_thread, line 283, and the locals of a fresh pass
ThreadBegin ==
    /\ pPc = "spawned"
    /\ running' = TRUE
    /\ pPc' = "input"
    /\ idx' = 1
    /\ results' = <<>>
    /\ existing_media' = {}
    /\ use_direct_write' = FALSE
    /\ ci' = 1
    /\ pending' = <<>>
    /\ tasks' = {}
    /\ upload_queue' = {}
    /\ note_ids' = <<>>
    /\ ri' = 1
    /\ added' = 0
    /\ skipped_known' = 0
    /\ event' = "none"
    /\ submitted' = {}
    /\ addNotesCalls' = 0
    /\ reply' = NoReply
    /\ UNCHANGED <<settings, passes, payload, known_words, cacheRest, scanVars, pureVars, raceVars>>

LeaveWithoutRelease(ev) ==
    /\ event' = ev
    /\ UNCHANGED running
    /\ pPc' = "ended"

\* What leaving _process_thread does to the pass: push the terminal event, then
\* finally: self._running = False
Leave(ev) ==
    /\ event' = ev
    /\ running' = FALSE
    /\ pPc' = "ended"

\* STEP 1 and 2: the input is read, or the pass ends with an error event
GetInput ==
    /\ pPc = "input"
    /\ \/ /\ pPc' = "scan"
          /\ UNCHANGED <<running, event>>
       \/ Leave("error")
    /\ UNCHANGED <<settings, passes, payload, idx, results, existing_media,
                   use_direct_write, ci, pending, tasks, upload_queue, note_ids, ri,
                   added, skipped_known, submitted, addNotesCalls, reply, known_words,
                   cacheRest, scanVars, pureVars, raceVars>>

\* STEP 3: one turn of the loop over the sentences
ScanSentence ==
    /\ pPc = "scan"
    /\ idx <= Len(Sentences)
    /\ IF ~running
       THEN /\ Leave("stopped")
            /\ UNCHANGED <<idx, results>>
       ELSE LET lemma == Sentences[idx]
            IN  /\ idx' = idx + 1
                /\ results' = IF (~settings.allow_duplicates /\ lemma \in known_words)
                                  \/ SeqContains(results, lemma)
                              THEN results
                              ELSE Append(results, lemma)
                /\ UNCHANGED <<running, event, pPc>>
    /\ UNCHANGED <<settings, passes, payload, existing_media, use_direct_write, ci,
                   pending, tasks, upload_queue, note_ids, ri, added, skipped_known,
                   submitted, addNotesCalls, reply, known_words, cacheRest, scanVars, pureVars, raceVars>>

\* lines 383-455: no candidate ends the pass; otherwise the best sentences are
\* picked and the pre-flight requests give the media directory and the listing
Preflight ==
    /\ pPc = "scan"
    /\ idx > Len(Sentences)
    /\ IF results = <<>>
       THEN /\ Leave("done")
            /\ UNCHANGED <<existing_media, use_direct_write>>
       ELSE /\ pPc' = "assemble"
            /\ \E direct \in BOOLEAN : \E listing \in Listings \cup {{}} :
                 /\ use_direct_write' = direct
                 /\ existing_media' = listing
            /\ UNCHANGED <<running, event>>
    /\ UNCHANGED <<settings, passes, payload, idx, results, ci, pending, tasks,
                   upload_queue, note_ids, ri, added, skipped_known, submitted,
                   addNotesCalls, reply, known_words, cacheRest, scanVars, pureVars, raceVars>>

\* do_audio = not clip_exists
DoAudioAlways(clip_exists) == TRUE

DoAudio(clip_exists) == ~clip_exists

\* do_frame = not audio_only and not frame_exists
DoFrame(audio_only, frame_exists) == ~audio_only /\ ~frame_exists

\* lines 533-637: the fields of the card of one candidate and the tasks submitted
\* for it.  k is the place the record will take in pending.
AssembleCard(lemma, k) ==
    LET timed == payload.input_type = "media"
        clip_name == ArtifactName("clip", lemma)
        frame_name == ArtifactName("frame", lemma)
        audio_name == ArtifactName("word", lemma)
        clip_exists == clip_name \in existing_media
        frame_exists == frame_name \in existing_media
        do_audio == timed /\ DoAudio(clip_exists)
        do_frame == timed /\ DoFrame(payload.audio_only, frame_exists)
        do_word == settings.use_word_audio /\ audio_name \notin existing_media
        fields == [SentenceAudio |-> IF timed /\ clip_exists THEN clip_name ELSE Blank,
                   Picture |-> IF timed /\ ~payload.audio_only /\ frame_exists
                               THEN frame_name ELSE Blank,
                   ExpressionAudio |-> IF settings.use_word_audio /\ audio_name \in existing_media
                                       THEN audio_name ELSE Blank]
    IN  [record |-> [lemma |-> lemma, fields |-> fields],
         tasks |-> (IF do_audio \/ do_frame
                    THEN {[rec |-> k, kind |-> "media", ap |-> do_audio, fp |-> do_frame]}
                    ELSE {})
                   \cup (IF do_word
                         THEN {[rec |-> k, kind |-> "word_audio", ap |-> FALSE, fp |-> FALSE]}
                         ELSE {}),
         started |-> (IF do_audio THEN {clip_name} ELSE {})
                     \cup (IF do_frame THEN {frame_name} ELSE {})
                     \cup (IF do_word THEN {audio_name} ELSE {})]

\* Phase 1: one turn of the loop over the candidates (lines 492-639)
Assemble ==
    /\ pPc = "assemble"
    /\ ci <= Len(results)
    /\ IF ~running
       THEN /\ Leave("stopped")
            /\ UNCHANGED <<ci, pending, tasks, submitted, skipped_known>>
       ELSE LET lemma == results[ci]
            IN  /\ ci' = ci + 1
                /\ UNCHANGED <<running, event, pPc>>
                /\ IF ~settings.allow_duplicates /\ lemma \in known_words
                   THEN /\ skipped_known' = skipped_known + 1
                        /\ UNCHANGED <<pending, tasks, submitted>>
                   ELSE LET c == AssembleCard(lemma, Len(pending) + 1)
                        IN  /\ pending' = Append(pending, c.record)
                            /\ tasks' = tasks \cup c.tasks
                            /\ submitted' = submitted \cup c.started
                            /\ UNCHANGED skipped_known
    /\ UNCHANGED <<settings, passes, payload, idx, results, existing_media,
                   use_direct_write, upload_queue, note_ids, ri, added, addNotesCalls,
                   reply, known_words, cacheRest, scanVars, pureVars, raceVars>>

\* The fields a finished task sets itself (direct write) or hands to the upload
\* queue: _do_media and _do_word_audio
TaskOutputs(t) ==
    LET lemma == pending[t.rec].lemma
    IN  IF t.kind = "media"
        THEN (IF t.ap THEN {[rec |-> t.rec, field |-> "SentenceAudio",
                             name |-> ArtifactName("clip", lemma)]} ELSE {})
             \cup (IF t.fp THEN {[rec |-> t.rec, field |-> "Picture",
                                  name |-> ArtifactName("frame", lemma)]} ELSE {})
        ELSE {[rec |-> t.rec, field |-> "ExpressionAudio",
               name |-> ArtifactName("word", lemma)]}

SetFields(pend, outs) ==
    [k \in DOMAIN pend |->
        [pend[k] EXCEPT !.fields =
            [f \in DOMAIN pend[k].fields |->
                IF \E o \in outs : o.rec = k /\ o.field = f
                THEN (CHOOSE o \in outs : o.rec = k /\ o.field = f).name
                ELSE pend[k].fields[f]]]]

RunTaskAbortsOnFailure ==
    /\ \E t \in tasks :
         /\ tasks' = tasks \ {t}
         /\ \/ /\ pending' = <<>>
               /\ UNCHANGED upload_queue
            \/ /\ use_direct_write
               /\ pending' = SetFields(pending, TaskOutputs(t))
               /\ UNCHANGED upload_queue
            \/ /\ ~use_direct_write
               /\ upload_queue' = upload_queue \cup TaskOutputs(t)
               /\ UNCHANGED pending
    /\ UNCHANGED <<settings, running, passes, pPc, payload, idx, results, existing_media,
                   use_direct_write, ci, note_ids, ri, added, skipped_known, event,
                   submitted, addNotesCalls, reply, known_words, cacheRest, scanVars, pureVars, raceVars>>

\* a worker of extract_pool runs one task: it fails (the future holds the
\* exception, or no audio was found), or its outputs are written or queued
RunTask ==
    /\ \E t \in tasks :
         /\ tasks' = tasks \ {t}
         /\ \/ UNCHANGED <<pending, upload_queue>>
            \/ /\ use_direct_write
               /\ pending' = SetFields(pending, TaskOutputs(t))
               /\ UNCHANGED upload_queue
            \/ /\ ~use_direct_write
               /\ upload_queue' = upload_queue \cup TaskOutputs(t)
               /\ UNCHANGED pending
    /\ UNCHANGED <<settings, running, passes, pPc, payload, idx, results, existing_media,
                   use_direct_write, ci, note_ids, ri, added, skipped_known, event,
                   submitted, addNotesCalls, reply, known_words, cacheRest, scanVars, pureVars, raceVars>>

\* _upload_worker: upload_media stores the file and the field is set, or it fails
Upload ==
    /\ \E u \in upload_queue :
         /\ upload_queue' = upload_queue \ {u}
         /\ \/ pending' = SetFields(pending, {u})
            \/ UNCHANGED pending
    /\ UNCHANGED <<settings, running, passes, pPc, payload, idx, results, existing_media,
                   use_direct_write, ci, tasks, note_ids, ri, added, skipped_known, event,
                   submitted, addNotesCalls, reply, known_words, cacheRest, scanVars, pureVars, raceVars>>

WaitWithoutJoin ==
    /\ pPc = "assemble"
    /\ ci > Len(results)
    /\ pPc' = "commit"
    /\ UNCHANGED <<settings, running, passes, payload, idx, results, existing_media,
                   use_direct_write, ci, pending, tasks, upload_queue, note_ids, ri,
                   added, skipped_known, event, submitted, addNotesCalls, reply,
                   known_words, cacheRest, scanVars, pureVars, raceVars>>

\* lines 641-658: every future has a result and the upload queue is joined
WaitForTasks ==
    /\ pPc = "assemble"
    /\ ci > Len(results)
    /\ tasks = {}
    /\ upload_queue = {}
    /\ pPc' = "commit"
    /\ UNCHANGED <<settings, running, passes, payload, idx, results, existing_media,
                   use_direct_write, ci, pending, tasks, upload_queue, note_ids, ri,
                   added, skipped_known, event, submitted, addNotesCalls, reply,
                   known_words, cacheRest, scanVars, pureVars, raceVars>>

\* What the remote store answers to addNotes(notes): the request fails, the result
\* is null, or the result lists one outcome per note, in the order of the notes.
Replies(notes) ==
    {[kind |-> "raise", accepted |-> {}], [kind |-> "null", accepted |-> {}]}
    \cup {[kind |-> "list", accepted |-> acc] :
             acc \in SUBSET {notes[k].lemma : k \in DOMAIN notes}}

RemoteResult(notes, r) ==
    [k \in DOMAIN notes |-> IF notes[k].lemma \in r.accepted THEN IdOf(notes[k].lemma) ELSE None]

AddNotesBatchEmptyOnFailure(notes, r) ==
    IF notes = <<>> THEN <<>>
    ELSE IF r.kind = "list" THEN RemoteResult(notes, r)
    ELSE <<>>

\* add_notes_batch(url, notes)
AddNotesBatch(notes, r) ==
    IF notes = <<>> THEN <<>>
    ELSE IF r.kind = "raise" THEN [k \in DOMAIN notes |-> None]
    ELSE IF r.kind = "null" THEN [k \in DOMAIN notes |-> None]
    ELSE RemoteResult(notes, r)

\* Phase 2: the one add_notes_batch call (lines 673-686)
Commit ==
    /\ pPc = "commit"
    /\ IF pending = <<>>
       THEN /\ note_ids' = AddNotesBatch(pending, NoReply)
            /\ UNCHANGED <<reply, addNotesCalls>>
       ELSE \E r \in Replies(pending) :
              /\ reply' = r
              /\ addNotesCalls' = addNotesCalls + 1
              /\ note_ids' = AddNotesBatch(pending, r)
    /\ pPc' = "phase3"
    /\ ri' = 1
    /\ UNCHANGED <<settings, running, passes, payload, idx, results, existing_media,
                   use_direct_write, ci, pending, tasks, upload_queue, added,
                   skipped_known, event, submitted, known_words, cacheRest, scanVars, pureVars, raceVars>>

ApplyOutcomeAlwaysAdds(known, lemma, note_id) ==
    [known |-> known \cup {lemma}, added |-> 1, skipped |-> 0]

\* the body of the Phase 3 loop (lines 690-703)
ApplyOutcome(known, lemma, note_id) ==
    IF note_id = None
    THEN [known |-> known, added |-> 0, skipped |-> 1]
    ELSE [known |-> known \cup {lemma}, added |-> 1, skipped |-> 0]

\* Phase 3: one turn of the loop over zip(pending, note_ids)
Phase3 ==
    /\ pPc = "phase3"
    /\ ri <= Min(Len(pending), Len(note_ids))
    /\ LET o == ApplyOutcome(known_words, pending[ri].lemma, note_ids[ri])
       IN  /\ known_words' = o.known
           /\ added' = added + o.added
           /\ skipped_known' = skipped_known + o.skipped
    /\ ri' = ri + 1
    /\ UNCHANGED <<settings, running, passes, pPc, payload, idx, results, existing_media,
                   use_direct_write, ci, pending, tasks, upload_queue, note_ids, event,
                   submitted, addNotesCalls, reply, cacheRest, scanVars, pureVars, raceVars>>

\* lines 708-722: the loop is over, 'done' is pushed, the running flag is released
Finish ==
    /\ pPc = "phase3"
    /\ ri > Min(Len(pending), Len(note_ids))
    /\ Leave("done")
    /\ UNCHANGED <<settings, passes, payload, idx, results, existing_media,
                   use_direct_write, ci, pending, tasks, upload_queue, note_ids, ri,
                   added, skipped_known, submitted, addNotesCalls, reply, known_words,
                   cacheRest, scanVars, pureVars, raceVars>>

\* No mining pass has been started.
MineIdle ==
    /\ settings = [allow_duplicates |-> FALSE, use_word_audio |-> FALSE]
    /\ running = FALSE
    /\ passes = 0
    /\ pPc = "off"
    /\ payload = [input_type |-> "text", audio_only |-> FALSE]
    /\ idx = 1
    /\ results = <<>>
    /\ existing_media = {}
    /\ use_direct_write = FALSE
    /\ ci = 1
    /\ pending = <<>>
    /\ tasks = {}
    /\ upload_queue = {}
    /\ note_ids = <<>>
    /\ ri = 1
    /\ added = 0
    /\ skipped_known = 0
    /\ event = "none"
    /\ submitted = {}
    /\ addNotesCalls = 0
    /\ reply = NoReply

\* what scan_candidates and add_single_card have returned before they are called
NoScanRet == [kind |-> "none", items |-> <<>>]

NoAddRet == [kind |-> "none", error |-> ""]

\* Nothing has been scanned.
ScanIdle ==
    /\ scan_input = <<>>
    /\ freq_dict = <<>>
    /\ jitendex = {}
    /\ scan_cache = <<>>
    /\ scan_ret = NoScanRet
    /\ add_ret = NoAddRet
    /\ addRequests = {}

\* No pure function is being applied.
NoCall == [fn |-> "none", done |-> FALSE]

PureIdle == call = NoCall

\* the threads that call add_single_card (one per call of the front end)
AddThreads == {"t1", "t2"}

\* the _process_thread threads start_processing may start
ProcIds == 1..MaxPasses

IdleAdder == [pc |-> "idle", lemma |-> 0, sent |-> FALSE, ret |-> "none"]

\* pc: "none" | "spawned" | "input" | "scan" | "assemble" | "commit" | "ended";
\* left: iterations the loop the thread is in has still to make; asked: history,
\* stop_processing was called while the thread was started and before the end of
\* its assembly loop; missed: history, the thread polled _running after that call
\* and went on.
IdleProc == [pc |-> "none", event |-> "none", left |-> 0, asked |-> FALSE,
             missed |-> FALSE]

\* No add_single_card call is under way and no mining thread was started.
RaceIdle ==
    /\ adders = [t \in AddThreads |-> IdleAdder]
    /\ procs = [p \in ProcIds |-> IdleProc]

(***************************************************************************)
(* Specifications of the known-word cache                                  *)
(***************************************************************************)
\* Spec: the application starts with no cache file and an empty collection; the
\* user adds notes between reconciliations; initialize() is called up to MaxInits
\* times.  Only the refresh thread reconciles.
Init ==
    /\ remote = <<>>
    /\ reachable = TRUE
    /\ cacheFile = NoCache
    /\ known_words = {}
    /\ fetch_lock = "free"
    /\ uiPc = "idle"
    /\ inits = 0
    /\ bg = [b \in BgIds |-> IdleBg]
    /\ scanPc = "idle"
    /\ testPc = "idle"
    /\ g = [th \in Callers |-> IdleG]
    /\ uiRequests = 0
    /\ MineIdle
    /\ ScanIdle
    /\ PureIdle
    /\ RaceIdle

Next ==
    \/ InitCheck
    \/ Fast
    \/ \E b \in BgIds : BgCount(b)
    \/ \E b \in BgIds : BgPerType(b)
    \/ \E b \in BgIds : BgReturn(b)
    \/ \E th \in Callers : Acquire(th)
    \/ \E th \in Callers : FetchType(th)
    \/ \E th \in Callers : Merge(th)
    \/ AddNote
    \/ SetReachable
    \/ DamageCache

Spec == Init /\ [][Next]_vars

\* SpecLock: the refresh thread, scan_candidates and test_anki_connection run
\* concurrently over a collection that does not change meanwhile: either the first
\* launch (two notes, no cache file) or a later launch (the cache file was written
\* when only note 1 existed; the collection has grown to MaxNotes notes since).
Collection(n, firstKind) ==
    [i \in 1..n |-> NewNote(IF i = 1 THEN firstKind ELSE "A_word", i)]

InitLock ==
    /\ \/ /\ remote = <<NewNote("A_word", 1), NewNote("B_expr", 2)>>
          /\ cacheFile = NoCache
       \/ /\ remote = Collection(MaxNotes, "B_expr")
          /\ cacheFile = SaveCache({1}, 1, 1)
    /\ reachable = TRUE
    /\ known_words = {}
    /\ fetch_lock = "free"
    /\ uiPc = "idle"
    /\ inits = 0
    /\ bg = [b \in BgIds |-> IdleBg]
    /\ scanPc = "idle"
    /\ testPc = "idle"
    /\ g = [th \in Callers |-> IdleG]
    /\ uiRequests = 0
    /\ MineIdle
    /\ ScanIdle
    /\ PureIdle
    /\ RaceIdle

NextLock ==
    \/ InitCheck
    \/ Fast
    \/ \E b \in BgIds : BgCount(b)
    \/ \E b \in BgIds : BgPerType(b)
    \/ \E b \in BgIds : BgReturn(b)
    \/ ScanCall
    \/ ScanReturn
    \/ TestCall
    \/ TestReturn
    \/ \E th \in Callers : Acquire(th)
    \/ \E th \in Callers : FetchType(th)
    \/ \E th \in Callers : Merge(th)
    \/ SetReachable
    \/ DamageCache

SpecLock == InitLock /\ [][NextLock]_vars

\* SpecMine: mining passes over Sentences.  The application was initialized without
\* a cache file; the refresh thread has fetched the two notes of the collection and
\* has still to call back (api.py:223-225) when the first pass is started.
InitMine ==
    /\ remote = <<NewNote("A_word", 1), NewNote("A_word", 2)>>
    /\ reachable = TRUE
    /\ cacheFile = SaveCache(Lemmas, 2, 2)
    /\ known_words = {}
    /\ fetch_lock = "free"
    /\ uiPc = "idle"
    /\ inits = 1
    /\ bg = [b \in BgIds |-> [IdleBg EXCEPT !.pc = "call", !.delta = 2, !.outcome = "full"]]
    /\ scanPc = "idle"
    /\ testPc = "idle"
    /\ g = [th \in Callers |->
              IF th \in BgIds
              THEN [IdleG EXCEPT !.pc = "returned", !.saved = TRUE,
                                 !.ret = [words |-> Lemmas, max_id |-> 2]]
              ELSE IdleG]
    /\ uiRequests = 3
    /\ settings \in [allow_duplicates : BOOLEAN, use_word_audio : BOOLEAN]
    /\ running = FALSE
    /\ passes = 0
    /\ pPc = "off"
    /\ payload = [input_type |-> "text", audio_only |-> FALSE]
    /\ idx = 1
    /\ results = <<>>
    /\ existing_media = {}
    /\ use_direct_write = FALSE
    /\ ci = 1
    /\ pending = <<>>
    /\ tasks = {}
    /\ upload_queue = {}
    /\ note_ids = <<>>
    /\ ri = 1
    /\ added = 0
    /\ skipped_known = 0
    /\ event = "none"
    /\ submitted = {}
    /\ addNotesCalls = 0
    /\ reply = NoReply
    /\ ScanIdle
    /\ PureIdle
    /\ RaceIdle

NextMine ==
    \/ StartProcessing
    \/ StopProcessing
    \/ ThreadBegin
    \/ GetInput
    \/ ScanSentence
    \/ Preflight
    \/ Assemble
    \/ RunTask
    \/ Upload
    \/ WaitForTasks
    \/ Commit
    \/ Phase3
    \/ Finish
    \/ \E b \in BgIds : BgReturn(b)

SpecMine == InitMine /\ [][NextMine]_vars

(***************************************************************************)
(* The mining pass under fair scheduling                                   *)
(***************************************************************************)
\* an exception leaves the try block of _process_thread (api.py:285-714): the
\* handlers of lines 715-720 push 'error', finally releases the flag
Raise ==
    /\ pPc \in {"input", "scan", "assemble", "commit", "phase3"}
    /\ Leave("error")
    /\ UNCHANGED <<settings, passes, payload, idx, results, existing_media,
                   use_direct_write, ci, pending, tasks, upload_queue, note_ids, ri,
                   added, skipped_known, submitted, addNotesCalls, reply, known_words,
                   cacheRest, scanVars, pureVars, raceVars>>

\* the steps of the pass thread
PassStep ==
    \/ ThreadBegin
    \/ GetInput
    \/ ScanSentence
    \/ Preflight
    \/ Assemble
    \/ WaitForTasks
    \/ Commit
    \/ Phase3
    \/ Finish

\* SpecMineFair: the passes of SpecMine once the refresh thread has called back,
\* with exceptions; a thread that can take a step eventually takes one (the pass
\* thread, the workers of extract_pool, the upload workers).  The user's calls
\* (start_processing, stop_processing) and exceptions are not forced.
InitMineFair ==
    /\ InitMine
    /\ settings = [allow_duplicates |-> FALSE, use_word_audio |-> TRUE]

NextMineFair ==
    \/ NextMine
    \/ Raise

SpecMineFair ==
    /\ InitMineFair
    /\ [][NextMineFair]_vars
    /\ WF_vars(PassStep)
    /\ WF_vars(RunTask)
    /\ WF_vars(Upload)

(***************************************************************************)
(* Part III - the scan path of src/api.py (scan_candidates,                *)
(*            add_single_card) and the candidate collector of the mining   *)
(*            pass, over tokenized sentences: specification SpecScan.      *)
(*                                                                         *)
(* A lemma is named by a number (as the words of Part I and II are); its   *)
(* written form is a sequence of characters, each of one class.            *)
(***************************************************************************)
\* Length of the source scanned, in sentences.
NumSentences == 2

\* frequency.py:25  the rank of a term the frequency store does not have
Unranked == 999999

\* nlp.py:51  the CJK ideograph ranges
Kanji == {"SHOKU", "GAKU", "KOU", "BEN", "KYOU", "SUI", "TOU", "KEI", "CHIKU", "SHOU"}

\* hiragana and katakana
Kana == {"a", "i", "u", "ku", "ge", "su", "ta", "de", "na", "ha", "be", "ma", "mo",
         "ra", "ru", "re"}

\* nlp.py:55  ord(ch) < 128
Latin == {"o", "k"}

\* nlp._has_kanji
HasKanji(text) == \E i \in DOMAIN text : text[i] \in Kanji

\* nlp._is_all_ascii
IsAllAscii(text) == \A i \in DOMAIN text : text[i] \in Latin

\* nlp._SKIP_LEMMAS
SkipLemmas == { <<"su", "ru">>, <<"i", "ru">>, <<"a", "ru">>, <<"na", "ru">>,
                <<"de", "su">>, <<"ma", "su">>, <<"ku", "ru">>, <<"ku", "re", "ru">>,
                <<"mo", "ra", "u">>, <<"a", "ge", "ru">>, <<"na", "i">> }

\* nlp._SKIP_POS
SkipPos == {"particle", "auxiliary_verb", "conjunction", "interjection", "symbol",
            "supplementary_symbol", "whitespace", "filler"}

ShouldSkipNoKanjiTest(surface, lemma, pos_tuple) ==
    LET pos_main == IF Len(pos_tuple) > 0 THEN pos_tuple[1] ELSE ""
        pos_sub == IF Len(pos_tuple) > 1 THEN pos_tuple[2] ELSE ""
    IN  \/ pos_sub = "proper_noun"
        \/ IsAllAscii(surface)
        \/ pos_main \in SkipPos
        \/ Len(lemma) < 2
        \/ lemma \in SkipLemmas

\* nlp.should_skip(surface, lemma, pos_tuple): TRUE when the token is not to be mined
ShouldSkip(surface, lemma, pos_tuple) ==
    LET pos_main == IF Len(pos_tuple) > 0 THEN pos_tuple[1] ELSE ""
        pos_sub == IF Len(pos_tuple) > 1 THEN pos_tuple[2] ELSE ""
    IN  \/ ~HasKanji(lemma)
        \/ pos_sub = "proper_noun"
        \/ IsAllAscii(surface)
        \/ pos_main \in SkipPos
        \/ Len(lemma) < 2
        \/ lemma \in SkipLemmas

\* The vocabulary of the sources scanned: lemma number -> written form and
\* part of speech.  1 taberu, 2 gakkou, 3 benkyou (minable); 4 mizu (one
\* character); 5 suru (grammar verb); 6 Toukyou (proper noun); 7 ha (particle);
\* 8 chikushou (interjection written with ideographs); 9 taberu written in kana;
\* 10 "ok".
Written == << <<"SHOKU", "be", "ru">>, <<"GAKU", "KOU">>, <<"BEN", "KYOU">>, <<"SUI">>,
              <<"su", "ru">>, <<"TOU", "KEI">>, <<"ha">>, <<"CHIKU", "SHOU">>,
              <<"ta", "be", "ru">>, <<"o", "k">> >>

PosOf == << <<"verb", "general">>, <<"noun", "common_noun">>, <<"noun", "common_noun">>,
            <<"noun", "common_noun">>, <<"verb", "non_independent">>,
            <<"noun", "proper_noun">>, <<"particle", "binding">>, <<"interjection">>,
            <<"verb", "general">>, <<"noun", "common_noun">> >>

ScanLemmas == DOMAIN Written

\* one token of nlp.tokenize: surface, lemma, pos_tuple
Tok(lemma) == [surface |-> Written[lemma], lemma |-> lemma, pos_tuple |-> PosOf[lemma]]

\* The sentences the sources are made of, as nlp.tokenize returns them.
Corpus == << <<Tok(1), Tok(7), Tok(2), Tok(5), Tok(4)>>,
             <<Tok(1), Tok(3), Tok(2), Tok(6), Tok(8)>>,
             <<Tok(3), Tok(7), Tok(1), Tok(9), Tok(10)>> >>

\* the token passes nlp.should_skip
Minable(tok) == ~ShouldSkip(tok.surface, Written[tok.lemma], tok.pos_tuple)

\* frequency.get_rank
GetRank(db, lemma) == IF lemma \in DOMAIN db THEN db[lemma] ELSE Unranked

\* settings.note_type, the note type of the cards the application creates
MinedNoteType == "Lapis"

\* a value or Python's None
Some(x) == <<x>>

\* the <<sentence index, token index>> pairs of a source, in reading order
RECURSIVE Positions(_, _, _)
Positions(sents, i, j) ==
    IF i > Len(sents) THEN <<>>
    ELSE IF j > Len(sents[i]) THEN Positions(sents, i + 1, 1)
    ELSE << <<i, j>> >> \o Positions(sents, i, j + 1)

\* the keys of a dict filled in this order (a key keeps its first position)
RECURSIVE FirstSeen(_)
FirstSeen(seq) ==
    IF seq = <<>> THEN <<>>
    ELSE LET init == FirstSeen(SubSeq(seq, 1, Len(seq) - 1))
             last == seq[Len(seq)]
         IN  IF SeqContains(init, last) THEN init ELSE Append(init, last)

\* count_unknowns(sentence_text, exclude_lemma)  (api.py:395-405 and 823-828)
CountUnknowns(sentence, exclude_lemma, known) ==
    Cardinality({j \in DOMAIN sentence :
                    /\ Minable(sentence[j])
                    /\ sentence[j].lemma # exclude_lemma
                    /\ sentence[j].lemma \notin known})

RECURSIVE ArgMinLast(_, _, _)
ArgMinLast(keys, k, best) ==
    IF k > Len(keys) THEN best
    ELSE ArgMinLast(keys, k + 1, IF keys[k] <= keys[best] THEN k ELSE best)

\* Python's min(seq, key=...): the index of the first element whose key is smallest
\* (a later element replaces the current one only when its key is strictly smaller)
RECURSIVE ArgMinFirst(_, _, _)
ArgMinFirst(keys, k, best) ==
    IF k > Len(keys) THEN best
    ELSE ArgMinFirst(keys, k + 1, IF keys[k] < keys[best] THEN k ELSE best)

\* best = min(occs, key=lambda o: count_unknowns(o['text'], lemma))
BestOccurrence(occs, lemma, sents, known) ==
    LET keys == [k \in DOMAIN occs |-> CountUnknowns(sents[occs[k].sent], lemma, known)]
    IN  occs[ArgMinFirst(keys, 2, 1)]

\* what one occurrence holds: the sentence, the token, the rank of the lemma
Occurrence(sents, freq, p) ==
    [sent |-> p[1], tok |-> p[2], lemma |-> sents[p[1]][p[2]].lemma,
     rank |-> GetRank(freq, sents[p[1]][p[2]].lemma)]

\* the occurrences of one lemma among the positions that passed, in order
OccurrencesOf(passing, lemma, sents, freq) ==
    LET IsLemma(p) == sents[p[1]][p[2]].lemma = lemma
        ps == SelectSeq(passing, IsLemma)
    IN  [k \in DOMAIN ps |-> Occurrence(sents, freq, ps[k])]

\* the lemmas of a sequence of positions
LemmasAt(passing, sents) == [k \in DOMAIN passing |-> sents[passing[k][1]][passing[k][2]].lemma]

\* scan_candidates Phase 2a (api.py:783-805): the positions whose token is kept
ScanPassing(sents, known, s, freq) ==
    LET Passes(p) ==
            LET tok == sents[p[1]][p[2]]
            IN  /\ Minable(tok)
                /\ ~(~s.allow_duplicates /\ tok.lemma \in known)
                /\ GetRank(freq, tok.lemma) <= s.freq_threshold
    IN  SelectSeq(Positions(sents, 1, 1), Passes)

\* scan_candidates Phase 2b (api.py:808-814): dictionary.lookup_terms_batch keeps
\* the lemmas the dictionary has; the candidates keep the order of freq_passing
ScanCandidateOrder(sents, known, s, freq, dict) ==
    LET InDict(lemma) == lemma \in dict
    IN  SelectSeq(FirstSeen(LemmasAt(ScanPassing(sents, known, s, freq), sents)), InDict)

\* _process_thread STEP 3 (api.py:341-381): the positions whose token is kept
PassPassing(sents, known, s, freq, dict) ==
    LET Passes(p) ==
            LET tok == sents[p[1]][p[2]]
            IN  /\ Minable(tok)
                /\ ~(~s.allow_duplicates /\ tok.lemma \in known)
                /\ tok.lemma \in dict
                /\ GetRank(freq, tok.lemma) <= s.freq_threshold
    IN  SelectSeq(Positions(sents, 1, 1), Passes)

\* _process_thread STEP 3 and 4 (api.py:341-411): results, the (lemma, best) pairs
PassResults(sents, known, s, freq, dict) ==
    LET passing == PassPassing(sents, known, s, freq, dict)
        order == FirstSeen(LemmasAt(passing, sents))
    IN  [k \in DOMAIN order |->
            [lemma |-> order[k],
             best |-> BestOccurrence(OccurrencesOf(passing, order[k], sents, freq),
                                     order[k], sents, known)]]

\* the key of the final sort (api.py:910): x['rank'] if x['rank'] else 999999
SortKey(item) == IF item.rank # None /\ item.rank[1] # 0 THEN item.rank[1] ELSE Unranked

\* list.sort(key=...): stable, ascending by key
RECURSIVE SortItems(_)
SortItems(items) ==
    IF items = <<>> THEN <<>>
    ELSE LET init == SortItems(SubSeq(items, 1, Len(items) - 1))
             x == items[Len(items)]
             n == Cardinality({k \in DOMAIN init : SortKey(init[k]) <= SortKey(x)})
         IN  SubSeq(init, 1, n) \o <<x>> \o SubSeq(init, n + 1, Len(init))

\* scan_candidates Step 3 (api.py:822-912): the scan cache and the sorted items
ScanResult(sents, known, s, freq, dict, input_type) ==
    LET passing == ScanPassing(sents, known, s, freq)
        order == ScanCandidateOrder(sents, known, s, freq, dict)
        best == [lemma \in {order[k] : k \in DOMAIN order} |->
                    BestOccurrence(OccurrencesOf(passing, lemma, sents, freq),
                                   lemma, sents, known)]
        items == [k \in DOMAIN order |->
                     [lemma |-> order[k],
                      rank |-> IF best[order[k]].rank < Unranked
                               THEN Some(best[order[k]].rank) ELSE None,
                      sentence |-> best[order[k]].sent]]
    IN  [cache |-> [lemma \in DOMAIN best |->
                       [occ |-> best[lemma], rank |-> best[lemma].rank,
                        input_type |-> input_type]],
         items |-> SortItems(items)]

\* get_all_known_expressions(url) with the default targets and no other caller:
\* every target is fetched in full and the results are merged
FreshKnown ==
    LET res == [t \in Types |->
                   IF \E k \in DOMAIN DefaultTargets : DefaultTargets[k][1] = t
                   THEN LET k == CHOOSE k \in DOMAIN DefaultTargets : DefaultTargets[k][1] = t
                            r == FetchExpressionsForType(t, DefaultTargets[k][2], {})
                        IN  [set |-> TRUE, words |-> r.words, mid |-> r.mid]
                   ELSE NoRes]
    IN  MergeResults({}, res)

\* Api.scan_candidates(payload)
ScanCandidates ==
    /\ \E input_type \in {"media", "text"}, source_ok \in BOOLEAN :
         LET m == FreshKnown
             kw == IF m.expressions # {} THEN m.expressions ELSE known_words
             r == ScanResult(scan_input, kw, settings, freq_dict, jitendex, input_type)
         IN  /\ cacheFile' = SaveCache(m.expressions, m.total_notes, m.global_max_id)
             /\ known_words' = kw
             /\ IF source_ok
                THEN /\ scan_cache' = r.cache
                     /\ scan_ret' = [kind |-> "ok", items |-> r.items]
                ELSE /\ scan_ret' = [kind |-> "error", items |-> <<>>]
                     /\ UNCHANGED scan_cache
    /\ UNCHANGED <<remote, reachable, fetch_lock, uiPc, inits, bg, scanPc, testPc, g,
                   uiRequests, scan_input, freq_dict, jitendex, add_ret, addRequests,
                   mineVars, pureVars, raceVars>>

\* the note add_single_card creates: settings.note_type, Expression = lemma
MinedNote(lemma) ==
    [type |-> MinedNoteType,
     fields |-> [f \in Fields \cup {"Expression"} |-> IF f = "Expression" THEN lemma ELSE 0]]

\* anki.expression_exists_in_deck: findNotes deck:"..." Expression:"..."; FALSE on error
ExpressionExistsInDeck(lemma) ==
    /\ reachable
    /\ \E i \in DOMAIN remote :
         /\ "Expression" \in DOMAIN remote[i].fields
         /\ remote[i].fields["Expression"] = lemma

\* api.py:923-924
AbsentResult == [kind |-> "error", error |-> "Word not in scan cache. Run Scan first."]

\* the requests of the media part of add_single_card (api.py:979-1003)
MediaRequests(lemma) ==
    (IF scan_cache[lemma].input_type = "media" THEN {"storeMediaFile"} ELSE {})
    \cup (IF settings.use_word_audio THEN {"storeMediaFile"} ELSE {})

AddSingleCardUnguarded(lemma) ==
    /\ IF lemma \notin DOMAIN scan_cache
       THEN /\ add_ret' = [kind |-> "raised", error |-> "KeyError"]
            /\ addRequests' = {}
            /\ UNCHANGED <<remote, known_words>>
       ELSE IF ~settings.allow_duplicates /\ lemma \in known_words
       THEN /\ add_ret' = [kind |-> "error", error |-> "Already in Anki."]
            /\ addRequests' = {}
            /\ UNCHANGED <<remote, known_words>>
       ELSE /\ add_ret' = [kind |-> "ok", error |-> ""]
            /\ addRequests' = {"findNotes", "addNote"} \cup MediaRequests(lemma)
            /\ remote' = Append(remote, MinedNote(lemma))
            /\ known_words' = known_words \cup {lemma}
    /\ UNCHANGED <<reachable, cacheFile, fetch_lock, uiPc, inits, bg, scanPc, testPc, g,
                   uiRequests, scan_input, freq_dict, jitendex, scan_cache, scan_ret,
                   mineVars, pureVars, raceVars>>

\* Api.add_single_card(lemma)
AddSingleCard(lemma) ==
    /\ IF lemma \notin DOMAIN scan_cache
       THEN /\ add_ret' = AbsentResult
            /\ addRequests' = {}
            /\ UNCHANGED <<remote, known_words>>
       ELSE IF ~settings.allow_duplicates /\ lemma \in known_words
       THEN /\ add_ret' = [kind |-> "error", error |-> "Already in Anki."]
            /\ addRequests' = {}
            /\ UNCHANGED <<remote, known_words>>
       ELSE IF ExpressionExistsInDeck(lemma)
       THEN /\ add_ret' = [kind |-> "error", error |-> "Already in deck (duplicate expression)."]
            /\ addRequests' = {"findNotes"}
            /\ UNCHANGED <<remote, known_words>>
       ELSE IF ~reachable
       THEN /\ add_ret' = [kind |-> "error", error |-> "Cannot connect to AnkiConnect. Is Anki open?"]
            /\ addRequests' = {"findNotes", "addNote"} \cup MediaRequests(lemma)
            /\ UNCHANGED <<remote, known_words>>
       ELSE /\ add_ret' = [kind |-> "ok", error |-> ""]
            /\ addRequests' = {"findNotes", "addNote"} \cup MediaRequests(lemma)
            /\ remote' = Append(remote, MinedNote(lemma))
            /\ known_words' = known_words \cup {lemma}
    /\ UNCHANGED <<reachable, cacheFile, fetch_lock, uiPc, inits, bg, scanPc, testPc, g,
                   uiRequests, scan_input, freq_dict, jitendex, scan_cache, scan_ret,
                   mineVars, pureVars, raceVars>>

(***************************************************************************)
(* Specification of the scan path                                          *)
(***************************************************************************)
\* the sources: NumSentences sentences of the corpus
ScanInputs == [1..NumSentences -> {Corpus[k] : k \in DOMAIN Corpus}]

\* the stores: the frequency store (lemma -> rank; a lemma it lacks is Unranked)
\* and the lemmas the dictionary has
Stores == { [freq |-> (1 :> 500) @@ (2 :> 0) @@ (3 :> 50000), dict |-> {1, 2, 3, 4, 5, 9}],
            [freq |-> (1 :> 500) @@ (2 :> 900), dict |-> {1, 3}] }

\* settings.freq_threshold
Thresholds == {1000, Unranked}

\* SpecScan: the application has been initialized; the collection holds nothing, or
\* one note of a default target whose word is lemma 2, which is then known; the
\* user scans a source any number of times and adds cards for lemmas one at a time.
InitScan ==
    /\ \E world \in { <<TRUE, <<>>, {}>>,
                      <<TRUE, <<NewNote("A_word", 2)>>, {2}>>,
                      <<FALSE, <<NewNote("A_word", 2)>>, {2}>> } :
         /\ reachable = world[1]
         /\ remote = world[2]
         /\ known_words = world[3]
         /\ cacheFile = SaveCache(world[3], Cardinality(world[3]), Len(world[2]))
    /\ fetch_lock = "free"
    /\ uiPc = "idle"
    /\ inits = 1
    /\ bg = [b \in BgIds |-> IdleBg]
    /\ scanPc = "idle"
    /\ testPc = "idle"
    /\ g = [th \in Callers |-> IdleG]
    /\ uiRequests = 0
    /\ running = FALSE
    /\ passes = 0
    /\ pPc = "off"
    /\ payload = [input_type |-> "text", audio_only |-> FALSE]
    /\ idx = 1
    /\ results = <<>>
    /\ existing_media = {}
    /\ use_direct_write = FALSE
    /\ ci = 1
    /\ pending = <<>>
    /\ tasks = {}
    /\ upload_queue = {}
    /\ note_ids = <<>>
    /\ ri = 1
    /\ added = 0
    /\ skipped_known = 0
    /\ event = "none"
    /\ submitted = {}
    /\ addNotesCalls = 0
    /\ reply = NoReply
    /\ settings \in [allow_duplicates : BOOLEAN, use_word_audio : {FALSE},
                     freq_threshold : Thresholds]
    /\ scan_input \in ScanInputs
    /\ \E st \in Stores : freq_dict = st.freq /\ jitendex = st.dict
    /\ scan_cache = <<>>
    /\ scan_ret = NoScanRet
    /\ add_ret = NoAddRet
    /\ addRequests = {}
    /\ PureIdle
    /\ RaceIdle

\* the lemmas the user asks a card for: the minable ones, and one that no scan
\* ever returns
AddLemmas == {1, 2, 3, 4}

NextScan ==
    \/ ScanCandidates
    \/ \E lemma \in AddLemmas : AddSingleCard(lemma)

SpecScan == InitScan /\ [][NextScan]_vars

(***************************************************************************)
(* Part IV - the pure functions of the pipeline, each applied to inputs    *)
(*           drawn from bounded sets: specification SpecPure.              *)
(***************************************************************************)
\* the known-word sets the collectors are applied with
KnownSets == SUBSET {1, 2, 3}

\* the calls of the two candidate collectors
CollectCalls ==
    [fn : {"scan_collect", "pass_collect"},
     arg : [sents : ScanInputs, known : KnownSets,
            s : [allow_duplicates : BOOLEAN, use_word_audio : {FALSE},
                 freq_threshold : Thresholds],
            st : Stores],
     done : {FALSE}, out : {<<>>}]

\* scan_candidates Steps 2 and 3 (api.py:783-912) applied to call.arg
ApplyScanCollect ==
    /\ call.fn = "scan_collect"
    /\ ~call.done
    /\ LET a == call.arg
           r == ScanResult(a.sents, a.known, a.s, a.st.freq, a.st.dict, "text")
       IN  call' = [call EXCEPT !.done = TRUE,
                                !.out = [k \in DOMAIN r.items |->
                                           [lemma |-> r.items[k].lemma,
                                            best |-> r.cache[r.items[k].lemma].occ]]]
    /\ UNCHANGED <<cacheVars, mineVars, scanVars, raceVars>>

\* _process_thread STEP 3 and 4 (api.py:341-411) applied to call.arg
ApplyPassCollect ==
    /\ call.fn = "pass_collect"
    /\ ~call.done
    /\ LET a == call.arg
       IN  call' = [call EXCEPT !.done = TRUE,
                                !.out = PassResults(a.sents, a.known, a.s, a.st.freq, a.st.dict)]
    /\ UNCHANGED <<cacheVars, mineVars, scanVars, raceVars>>

(***************************************************************************)
(* The cache file: _save_cache writes a JSON document, _load_cache parses  *)
(* it (anki.py:49-86).  A document is a function from its keys to values;  *)
(* the words are written as a list, in whatever order list(set) gives.     *)
(***************************************************************************)
\* the records saved: word sets, note counts and note identifiers
CacheCalls ==
    [fn : {"cache"},
     arg : [words : SUBSET {1, 2, 3},
            note_count : {0, 1, 2, 1000000},
            max_note_id : {0, 1, 2, 1000000}],
     done : {FALSE},
     out : {[words |-> {}, count |-> 0, max_id |-> 0]},
     file : {[present |-> FALSE, readable |-> FALSE, doc |-> <<>>]},
     saved : {"no"}]

\* list(words): the elements of the set, each once, in some order
Orderings(S) == {sq \in [1..Cardinality(S) -> S] : \A e \in S : \E i \in DOMAIN sq : sq[i] = e}

\* the object json.dump writes (anki.py:78-83)
CacheDocument(word_list, note_count, max_note_id) ==
    [words |-> word_list, note_count |-> note_count, max_note_id |-> max_note_id,
     cache_version |-> 2]

\* data.get(key, default)
JsonGet(doc, key, default) == IF key \in DOMAIN doc THEN doc[key] ELSE default

LoadCacheFromOldKey(file) ==
    IF ~file.present \/ ~file.readable
    THEN [words |-> {}, count |-> 0, max_id |-> 0]
    ELSE LET word_list == JsonGet(file.doc, "words", <<>>)
         IN  [words |-> {word_list[i] : i \in DOMAIN word_list},
              count |-> JsonGet(file.doc, "note_count", 0),
              max_id |-> JsonGet(file.doc, "max_id", 0)]

\* _load_cache on a given file: (set(), 0, 0) when it is absent or does not parse
LoadCacheFrom(file) ==
    IF ~file.present \/ ~file.readable
    THEN [words |-> {}, count |-> 0, max_id |-> 0]
    ELSE LET word_list == JsonGet(file.doc, "words", <<>>)
         IN  [words |-> {word_list[i] : i \in DOMAIN word_list},
              count |-> JsonGet(file.doc, "note_count", 0),
              max_id |-> JsonGet(file.doc, "max_note_id", 0)]

\* _save_cache(words, note_count, max_note_id): the document is written, or the
\* write fails (before the file is created, or after it was truncated) and the
\* exception is swallowed
SaveCacheCall ==
    /\ call.fn = "cache"
    /\ call.saved = "no"
    /\ \/ \E word_list \in Orderings(call.arg.words) :
             call' = [call EXCEPT !.saved = "ok",
                                  !.file = [present |-> TRUE, readable |-> TRUE,
                                            doc |-> CacheDocument(word_list,
                                                                  call.arg.note_count,
                                                                  call.arg.max_note_id)]]
       \/ call' = [call EXCEPT !.saved = "failed"]
       \/ call' = [call EXCEPT !.saved = "failed",
                                !.file = [present |-> TRUE, readable |-> FALSE, doc |-> <<>>]]
    /\ UNCHANGED <<cacheVars, mineVars, scanVars, raceVars>>

\* _load_cache()
LoadCacheCall ==
    /\ call.fn = "cache"
    /\ call.saved # "no"
    /\ ~call.done
    /\ call' = [call EXCEPT !.done = TRUE, !.out = LoadCacheFrom(call.file)]
    /\ UNCHANGED <<cacheVars, mineVars, scanVars, raceVars>>

(***************************************************************************)
(* Furigana alignment (furigana.py:124-175).  Strings are sequences of     *)
(* characters; positions count from 0 as in the source.                    *)
(***************************************************************************)
MaxFormLen == 3

\* furigana._is_kana
IsKana(ch) == ch \in Kana

\* str.find(ch, start): the least position from start on, or -1
Find(str, ch, start) ==
    LET hits == {i \in start..(Len(str) - 1) : str[i + 1] = ch}
    IN  IF hits = {} THEN -1 ELSE CHOOSE i \in hits : \A j \in hits : i <= j

RECURSIVE KanjiRunEndPastKana(_, _)
KanjiRunEndPastKana(lemma, l_pos) ==
    IF l_pos < Len(lemma) /\ ~IsKana(lemma[l_pos + 1])
    THEN KanjiRunEndPastKana(lemma, l_pos + 1)
    ELSE IF l_pos < Len(lemma) THEN l_pos + 1 ELSE l_pos

\* furigana.py:150-151: the position after the contiguous run of non-kana
RECURSIVE KanjiRunEnd(_, _)
KanjiRunEnd(lemma, l_pos) ==
    IF l_pos < Len(lemma) /\ ~IsKana(lemma[l_pos + 1])
    THEN KanjiRunEnd(lemma, l_pos + 1)
    ELSE l_pos

\* the while loop of _align_furigana from (l_pos, r_pos) on
RECURSIVE AlignFrom(_, _, _, _)
AlignFrom(lemma, reading, l_pos, r_pos) ==
    IF l_pos >= Len(lemma) THEN <<>>
    ELSE LET ch == lemma[l_pos + 1] IN
         IF IsKana(ch)
         THEN <<[text |-> <<ch>>, furi |-> <<>>]>>
              \o AlignFrom(lemma, reading, l_pos + 1,
                           IF r_pos < Len(reading) /\ reading[r_pos + 1] = ch
                           THEN r_pos + 1 ELSE r_pos)
         ELSE LET run_end == KanjiRunEnd(lemma, l_pos)
                  found == IF run_end < Len(lemma)
                           THEN Find(reading, lemma[run_end + 1], r_pos + 1)
                           ELSE -1
                  r_end == IF found = -1 THEN Len(reading) ELSE found
              IN  <<[text |-> SubSeq(lemma, l_pos + 1, run_end),
                     furi |-> SubSeq(reading, r_pos + 1, r_end)]>>
                  \o AlignFrom(lemma, reading, run_end, r_end)

\* furigana._align_furigana
AlignFurigana(lemma, reading) == AlignFrom(lemma, reading, 0, 0)

\* written forms of ideographs, kana and a letter; readings of kana
AlignCalls ==
    LET StringsOver(chars) == UNION {[1..n -> chars] : n \in 0..MaxFormLen}
    IN  [fn : {"align"},
         arg : [lemma : StringsOver({"SHOKU", "KOU", "be", "ru", "k"}),
                reading : StringsOver({"ta", "be", "ru"})],
         done : {FALSE},
         out : {<<>>}]

ApplyAlign ==
    /\ call.fn = "align"
    /\ ~call.done
    /\ call' = [call EXCEPT !.done = TRUE,
                            !.out = AlignFurigana(call.arg.lemma, call.arg.reading)]
    /\ UNCHANGED <<cacheVars, mineVars, scanVars, raceVars>>

(***************************************************************************)
(* Whole-sentence furigana (furigana.py:200-312).  A rendering is the      *)
(* sequence of the parts appended, each with the segments it is made of:   *)
(* a segment with a reading stands for surface[reading] in the plain form  *)
(* and for <ruby>surface<rt>reading</rt></ruby> in the HTML form, a        *)
(* segment without one for the bare text; bold stands for <b>...</b>.      *)
(* The characters of the model need no HTML escaping.                      *)
(***************************************************************************)
MaxTokens == 3

\* words as nlp.tokenize reports them: surface, lemma, reading of the surface
FuriWords ==
    << [surface |-> <<"SHOKU", "be", "ru">>, lemma |-> 1, reading |-> <<"ta", "be", "ru">>],
       [surface |-> <<"SHOKU", "be", "ta">>, lemma |-> 1, reading |-> <<"ta", "be", "ta">>],
       [surface |-> <<"SUI">>,               lemma |-> 4, reading |-> <<"su", "i">>],
       [surface |-> <<"ha">>,                lemma |-> 7, reading |-> <<"ha">>],
       [surface |-> <<"ta", "be", "ru">>,    lemma |-> 9, reading |-> <<"ta", "be", "ru">>] >>

\* the tokens of the sentence made of the given words, with m.begin() and m.end()
RECURSIVE TokensOf(_)
TokensOf(words) ==
    IF words = <<>> THEN <<>>
    ELSE LET before == TokensOf(SubSeq(words, 1, Len(words) - 1))
             start == IF before = <<>> THEN 0 ELSE before[Len(before)].end
             w == FuriWords[words[Len(words)]]
         IN  Append(before, [surface |-> w.surface, lemma |-> w.lemma, reading |-> w.reading,
                             start |-> start, end |-> start + Len(w.surface)])

\* the sentence text the tokens were cut from
RECURSIVE TextOf(_)
TextOf(words) ==
    IF words = <<>> THEN <<>>
    ELSE TextOf(SubSeq(words, 1, Len(words) - 1)) \o FuriWords[words[Len(words)]].surface

\* sorted(tokens, key=lambda t: t['start']): stable, by insertion
RECURSIVE SortByStart(_)
SortByStart(tokens) ==
    IF tokens = <<>> THEN <<>>
    ELSE LET rest == SortByStart(SubSeq(tokens, 1, Len(tokens) - 1))
             tok == tokens[Len(tokens)]
             n == Cardinality({i \in DOMAIN rest : rest[i].start <= tok.start})
         IN  SubSeq(rest, 1, n) \o <<tok>> \o SubSeq(rest, n + 1, Len(rest))

\* what the loop body appends for one token: furigana.py:229-238 (plain) and
\* furigana.py:282-303 (HTML)
TokenPart(tok, target_lemma, html) ==
    LET bare == <<[text |-> tok.surface, furi |-> <<>>]>>
    IN  IF html
        THEN [token |-> TRUE, lemma |-> tok.lemma, bold |-> (tok.lemma = target_lemma),
              segs |-> IF HasKanji(tok.surface)
                       THEN AlignFurigana(tok.surface, tok.reading)
                       ELSE bare]
        ELSE [token |-> TRUE, lemma |-> tok.lemma, bold |-> FALSE,
              segs |-> IF tok.lemma = target_lemma THEN bare
                       ELSE IF HasKanji(tok.surface)
                            THEN AlignFurigana(tok.surface, tok.reading)
                            ELSE bare]

\* the for loop over sorted_tokens from token k on, and the copy of the rest
RECURSIVE RenderFrom(_, _, _, _, _, _)
RenderFrom(sentence, sorted_tokens, k, pos, target_lemma, html) ==
    LET \* characters copied from the sentence outside any token
        GapPart(text) == [token |-> FALSE, lemma |-> 0, bold |-> FALSE,
                          segs |-> <<[text |-> text, furi |-> <<>>]>>]
    IN
    IF k > Len(sorted_tokens)
    THEN IF pos < Len(sentence)
         THEN <<GapPart(SubSeq(sentence, pos + 1, Len(sentence)))>>
         ELSE <<>>
    ELSE LET tok == sorted_tokens[k] IN
         IF tok.start < pos
         THEN RenderFrom(sentence, sorted_tokens, k + 1, pos, target_lemma, html)
         ELSE (IF tok.start > pos
               THEN <<GapPart(SubSeq(sentence, pos + 1, tok.start))>>
               ELSE <<>>)
              \o <<TokenPart(tok, target_lemma, html)>>
              \o RenderFrom(sentence, sorted_tokens, k + 1, tok.end, target_lemma, html)

\* furigana.sentence_furigana
SentenceFurigana(sentence, tokens, target_lemma) ==
    RenderFrom(sentence, SortByStart(tokens), 1, 0, target_lemma, FALSE)

\* furigana.sentence_furigana_html, the value of the SentenceFurigana field
\* (api.py:542, api.py:963)
SentenceFuriganaHtml(sentence, tokens, target_lemma) ==
    RenderFrom(sentence, SortByStart(tokens), 1, 0, target_lemma, TRUE)

RenderCalls ==
    [fn : {"sentence_furigana_html", "sentence_furigana"},
     arg : [words : UNION {[1..n -> DOMAIN FuriWords] : n \in 1..MaxTokens},
            target_lemma : {1, 4, 9}],
     done : {FALSE},
     out : {<<>>}]

ApplyRender ==
    /\ call.fn \in {"sentence_furigana_html", "sentence_furigana"}
    /\ ~call.done
    /\ LET sentence == TextOf(call.arg.words)
           tokens == TokensOf(call.arg.words)
       IN  call' = [call EXCEPT
                      !.done = TRUE,
                      !.out = IF call.fn = "sentence_furigana_html"
                              THEN SentenceFuriganaHtml(sentence, tokens, call.arg.target_lemma)
                              ELSE SentenceFurigana(sentence, tokens, call.arg.target_lemma)]
    /\ UNCHANGED <<cacheVars, mineVars, scanVars, raceVars>>

(***************************************************************************)
(* Specification of the pure functions                                     *)
(***************************************************************************)
PureCalls == CollectCalls \cup CacheCalls \cup AlignCalls \cup RenderCalls

\* SpecPure: one call, its arguments drawn from PureCalls, is made and returns.
InitPure ==
    /\ remote = <<>>
    /\ reachable = TRUE
    /\ cacheFile = NoCache
    /\ known_words = {}
    /\ fetch_lock = "free"
    /\ uiPc = "idle"
    /\ inits = 0
    /\ bg = [b \in BgIds |-> IdleBg]
    /\ scanPc = "idle"
    /\ testPc = "idle"
    /\ g = [th \in Callers |-> IdleG]
    /\ uiRequests = 0
    /\ MineIdle
    /\ ScanIdle
    /\ call \in PureCalls
    /\ RaceIdle

NextPure ==
    \/ ApplyScanCollect
    \/ ApplyPassCollect
    \/ SaveCacheCall
    \/ LoadCacheCall
    \/ ApplyAlign
    \/ ApplyRender

SpecPure == InitPure /\ [][NextPure]_vars

(***************************************************************************)
(* Part V - further specifications of the known-word cache and of the      *)
(* callers of the remote store                                             *)
(***************************************************************************)
\* SpecTargets: test_anki_connection fetches with the targets the settings hold
\* at the time: the two collections of Part I, one collection twice with a
\* different field each time, or a single collection.
TargetConfigs ==
    { KnownWordTargets,
      << <<"A", "Word">>, <<"A", "Expr">> >>,
      << <<"B", "Expr">> >> }

\* a note of the first collection with both fields filled (two different words)
BothFields(id) ==
    [type |-> "A", fields |-> [f \in Fields |-> IF f = "Word" THEN id ELSE id + MaxNotes]]

\* test_anki_connection with settings.known_word_targets = targets (api.py:104-108)
TestCallConfigured ==
    /\ testPc = "idle"
    /\ reachable
    /\ known_words = {}
    /\ testPc' = "call"
    /\ \E targets \in TargetConfigs : Enter("test", targets, NoInc, {})
    /\ UNCHANGED <<remote, reachable, cacheFile, known_words, fetch_lock, uiPc, inits,
                   bg, scanPc, uiRequests,
                   mineVars, scanVars, pureVars, raceVars>>

InitTargets ==
    /\ \E kinds \in [1..FreeNotes -> NoteKinds \cup {"A_both"}] :
         remote = [i \in 1..FreeNotes |->
                     IF kinds[i] = "A_both" THEN BothFields(i) ELSE NewNote(kinds[i], i)]
    /\ cacheFile = NoCache
    /\ reachable = TRUE
    /\ known_words = {}
    /\ fetch_lock = "free"
    /\ uiPc = "idle"
    /\ inits = 0
    /\ bg = [b \in BgIds |-> IdleBg]
    /\ scanPc = "idle"
    /\ testPc = "idle"
    /\ g = [th \in Callers |-> IdleG]
    /\ uiRequests = 0
    /\ MineIdle
    /\ ScanIdle
    /\ PureIdle
    /\ RaceIdle

NextTargets ==
    \/ TestCallConfigured
    \/ TestReturn
    \/ \E th \in Callers : Acquire(th)
    \/ \E th \in Callers : FetchType(th)
    \/ \E th \in Callers : Merge(th)
    \/ SetReachable

SpecTargets == InitTargets /\ [][NextTargets]_vars

(***************************************************************************)
(* SpecAdd: add_single_card called from two threads after a scan.  Each    *)
(* call is followed through its remote requests: the checks of lines       *)
(* 923-937, the in-deck query, the addNote request, the update of          *)
(* _known_words.  The media uploads of lines 979-1003 fall between the     *)
(* in-deck query and the addNote request.                                  *)
(***************************************************************************)
AddEnterOneAtATime(t) ==
    /\ adders[t].pc = "idle"
    /\ \A u \in AddThreads \ {t} : adders[u].pc \in {"idle", "done"}
    /\ \E lemma \in AddLemmas :
         adders' = [adders EXCEPT ![t] =
            IF lemma \notin DOMAIN scan_cache
            THEN [IdleAdder EXCEPT !.pc = "done", !.lemma = lemma, !.ret = "absent"]
            ELSE IF ~settings.allow_duplicates /\ lemma \in known_words
            THEN [IdleAdder EXCEPT !.pc = "done", !.lemma = lemma, !.ret = "known"]
            ELSE [IdleAdder EXCEPT !.pc = "deck", !.lemma = lemma]]
    /\ UNCHANGED <<cacheVars, mineVars, scanVars, pureVars, procs>>

\* api.py:923-937: the scan-cache test and the known-word test
AddEnter(t) ==
    /\ adders[t].pc = "idle"
    /\ \E lemma \in AddLemmas :
         adders' = [adders EXCEPT ![t] =
            IF lemma \notin DOMAIN scan_cache
            THEN [IdleAdder EXCEPT !.pc = "done", !.lemma = lemma, !.ret = "absent"]
            ELSE IF ~settings.allow_duplicates /\ lemma \in known_words
            THEN [IdleAdder EXCEPT !.pc = "done", !.lemma = lemma, !.ret = "known"]
            ELSE [IdleAdder EXCEPT !.pc = "deck", !.lemma = lemma]]
    /\ UNCHANGED <<cacheVars, mineVars, scanVars, pureVars, procs>>

\* api.py:952-953: the in-deck query
AddDeckCheck(t) ==
    /\ adders[t].pc = "deck"
    /\ adders' = [adders EXCEPT ![t].pc = IF ExpressionExistsInDeck(adders[t].lemma)
                                          THEN "done" ELSE "insert",
                                ![t].ret = IF ExpressionExistsInDeck(adders[t].lemma)
                                           THEN "in_deck" ELSE @]
    /\ UNCHANGED <<cacheVars, mineVars, scanVars, pureVars, procs>>

\* api.py:1005-1008: the addNote request.  The store refuses a note whose
\* expression the deck already holds (add_note returns -1); an unreachable store
\* makes add_note raise.
AddInsert(t) ==
    /\ adders[t].pc = "insert"
    /\ LET lemma == adders[t].lemma IN
       IF ~reachable
       THEN /\ adders' = [adders EXCEPT ![t].pc = "done", ![t].sent = TRUE,
                                        ![t].ret = "raised"]
            /\ UNCHANGED remote
       ELSE IF ExpressionExistsInDeck(lemma)
       THEN /\ adders' = [adders EXCEPT ![t].pc = "done", ![t].sent = TRUE,
                                        ![t].ret = "duplicate"]
            /\ UNCHANGED remote
       ELSE /\ adders' = [adders EXCEPT ![t].pc = "record", ![t].sent = TRUE]
            /\ remote' = Append(remote, MinedNote(lemma))
    /\ UNCHANGED <<reachable, cacheFile, known_words, fetch_lock, uiPc, inits, bg, scanPc,
                   testPc, g, uiRequests, mineVars, scanVars, pureVars, procs>>

\* api.py:1010-1011: self._known_words.add(lemma); return {'ok': True}
AddRecord(t) ==
    /\ adders[t].pc = "record"
    /\ known_words' = known_words \cup {adders[t].lemma}
    /\ adders' = [adders EXCEPT ![t].pc = "done", ![t].ret = "ok"]
    /\ UNCHANGED <<remote, reachable, cacheFile, fetch_lock, uiPc, inits, bg, scanPc,
                   testPc, g, uiRequests, mineVars, scanVars, pureVars, procs>>

\* The calls come after the one scan of the session; the worlds are those of
\* SpecScan.
NextAdd ==
    \/ (scan_ret.kind = "none" /\ ScanCandidates)
    \/ \E t \in AddThreads : AddEnter(t)
    \/ \E t \in AddThreads : AddDeckCheck(t)
    \/ \E t \in AddThreads : AddInsert(t)
    \/ \E t \in AddThreads : AddRecord(t)

SpecAdd == InitScan /\ [][NextAdd]_vars

(***************************************************************************)
(* SpecStart: start_processing and stop_processing called from the threads *)
(* of the front end, and the _process_thread threads they start and stop.  *)
(* A thread is followed through its accesses to _running: the assignment   *)
(* of line 283, the polls of the scan loop and of the assembly loop, the   *)
(* finally clause.  The work of a pass is left to SpecMine.                *)
(***************************************************************************)
\* the state of the pass SpecMine follows, _running aside
passRest == <<settings, passes, pPc, payload, idx, results, existing_media,
              use_direct_write, ci, pending, tasks, upload_queue, note_ids, ri, added,
              skipped_known, event, submitted, addNotesCalls, reply>>

\* api.py:259-268: if self._running: return; otherwise a new thread is started
StartProcessingCall ==
    /\ ~running
    /\ \E p \in ProcIds :
         /\ procs[p].pc = "none"
         /\ \A q \in ProcIds : q < p => procs[q].pc # "none"
         /\ procs' = [procs EXCEPT ![p].pc = "spawned"]
    /\ UNCHANGED <<cacheVars, running, passRest, scanVars, pureVars, adders>>

\* api.py:270-272: self._running = False
StopProcessingCall ==
    /\ running' = FALSE
    /\ procs' = [p \in ProcIds |->
                   IF procs[p].pc \in {"spawned", "input", "scan", "assemble"}
                   THEN [procs[p] EXCEPT !.asked = TRUE]
                   ELSE procs[p]]
    /\ UNCHANGED <<cacheVars, passRest, scanVars, pureVars, adders>>

\* api.py:283: self._running = True, the first statement of the thread
ProcBegin(p) ==
    /\ procs[p].pc = "spawned"
    /\ running' = TRUE
    /\ procs' = [procs EXCEPT ![p].pc = "input"]
    /\ UNCHANGED <<cacheVars, passRest, scanVars, pureVars, adders>>

\* api.py:286-336: the input is read: the sentences of the scan loop, or the
\* 'error' event (lines 304-305, 715-720) and the finally clause
ProcInput(p) ==
    /\ procs[p].pc = "input"
    /\ \/ /\ \E n \in 1..NumSentences :
               procs' = [procs EXCEPT ![p].pc = "scan", ![p].left = n]
          /\ UNCHANGED running
       \/ /\ procs' = [procs EXCEPT ![p].pc = "ended", ![p].event = "error"]
          /\ running' = FALSE
    /\ UNCHANGED <<cacheVars, passRest, scanVars, pureVars, adders>>

\* api.py:341-344 and 492-495: the poll at the head of an iteration.  With the
\* flag down the thread pushes 'stopped' and returns through the finally clause;
\* otherwise it makes the iteration.  After the last sentence the candidates are
\* counted (none: 'done', lines 386-392); after the last candidate the thread
\* leaves the loop for the commit.
ProcPoll(p) ==
    /\ procs[p].pc \in {"scan", "assemble"}
    /\ IF ~running
       THEN /\ procs' = [procs EXCEPT ![p].pc = "ended", ![p].event = "stopped"]
            /\ running' = FALSE
       ELSE LET f == [procs[p] EXCEPT !.left = @ - 1, !.missed = @ \/ procs[p].asked] IN
            IF f.left > 0
            THEN /\ procs' = [procs EXCEPT ![p] = f]
                 /\ UNCHANGED running
            ELSE IF f.pc = "assemble"
            THEN /\ procs' = [procs EXCEPT ![p] = [f EXCEPT !.pc = "commit"]]
                 /\ UNCHANGED running
            ELSE \E n \in 0..NumSentences :
                   IF n = 0
                   THEN /\ procs' = [procs EXCEPT ![p] =
                                       [f EXCEPT !.pc = "ended", !.event = "done"]]
                        /\ running' = FALSE
                   ELSE /\ procs' = [procs EXCEPT ![p] =
                                       [f EXCEPT !.pc = "assemble", !.left = n]]
                        /\ UNCHANGED running
    /\ UNCHANGED <<cacheVars, passRest, scanVars, pureVars, adders>>

\* api.py:641-722: the drain, the commit, Phase 3, 'done', the finally clause
ProcFinish(p) ==
    /\ procs[p].pc = "commit"
    /\ procs' = [procs EXCEPT ![p].pc = "ended", ![p].event = "done"]
    /\ running' = FALSE
    /\ UNCHANGED <<cacheVars, passRest, scanVars, pureVars, adders>>

InitStart == InitMineFair

NextStart ==
    \/ StartProcessingCall
    \/ StopProcessingCall
    \/ \E p \in ProcIds : ProcBegin(p)
    \/ \E p \in ProcIds : ProcInput(p)
    \/ \E p \in ProcIds : ProcPoll(p)
    \/ \E p \in ProcIds : ProcFinish(p)

SpecStart == InitStart /\ [][NextStart]_vars

(***************************************************************************)
(* SpecSwap: the mining pass of SpecMine beside the refresh thread of      *)
(* initialize().  The collection holds a blank note and a note with word 2 *)
(* and there was no cache file: initialize() returned the empty set, the   *)
(* refresh thread has fetched the collection and saved it and has still to *)
(* call _on_refresh (api.py:222-224) when the first pass is started.  The  *)
(* pass mines the lemmas 1 and 2.                                          *)
(***************************************************************************)
InitSwap ==
    /\ remote = <<NewNote("A_blank", 1), NewNote("A_word", 2)>>
    /\ reachable = TRUE
    /\ cacheFile = SaveCache({2}, 2, 2)
    /\ known_words = {}
    /\ fetch_lock = "free"
    /\ uiPc = "idle"
    /\ inits = 1
    /\ bg = [b \in BgIds |-> [IdleBg EXCEPT !.pc = "call", !.delta = 2, !.outcome = "full"]]
    /\ scanPc = "idle"
    /\ testPc = "idle"
    /\ g = [th \in Callers |->
              IF th \in BgIds
              THEN [IdleG EXCEPT !.pc = "returned", !.saved = TRUE,
                                 !.ret = [words |-> {2}, max_id |-> 2]]
              ELSE IdleG]
    /\ uiRequests = 3
    /\ MineIdle
    /\ ScanIdle
    /\ PureIdle
    /\ RaceIdle

SpecSwap == InitSwap /\ [][NextMine]_vars

(***************************************************************************)
(* Properties of the known-word cache                                      *)
(***************************************************************************)
\* C1: at any moment at most one invocation of get_all_known_expressions is inside
\* its fetch-merge-persist section, and it is the one holding _fetch_lock; any other
\* caller (refresh thread, scan_candidates, test_anki_connection) that has arrived
\* is still waiting for the lock.
SingleFlight ==
    /\ \A th \in Callers : g[th].pc = "fetch" => fetch_lock = th
    /\ Cardinality({th \in Callers : g[th].pc = "fetch"}) <= 1

\* A caller is waiting for the lock while another caller is inside the section.
SingleFlightContended ==
    \E th1 \in Callers : \E th2 \in Callers \ {th1} :
        /\ g[th1].pc = "fetch"
        /\ fetch_lock = th1
        /\ g[th2].pc = "wait"

\* C2: the step in which initialize() gets the value of get_known_expressions_fast
\* hands it exactly the words of the cache record on disk (the empty set when the
\* file is absent or unreadable), issues no remote request in the calling thread,
\* whether or not the remote store is reachable, and starts one refresh thread.
FastReturnsCacheAndLaunches ==
    [][ (uiPc = "fast" /\ uiPc' = "idle") =>
          /\ known_words' = (IF cacheFile.present /\ cacheFile.readable
                             THEN cacheFile.words ELSE {})
          /\ uiRequests' = uiRequests
          /\ \A b \in BgIds : bg[b].pc \in {"off", "done"} /\ bg'[b].pc = "count"
      ]_cacheVars

\* The fast read has just returned a non-empty cached set while the remote store
\* is unreachable, and the refresh thread it started has not run yet.
FastReturnedWhileUnreachable ==
    /\ uiPc = "idle"
    /\ inits >= 1
    /\ ~reachable
    /\ known_words # {}
    /\ cacheFile.present /\ cacheFile.readable /\ known_words = cacheFile.words
    /\ uiRequests = 3
    /\ \A b \in BgIds : bg[b].pc = "count"

\* C3: in an Incremental reconciliation the only records passed to notesInfo, over
\* all the target collections, are those whose identifier exceeds the cached
\* high-water mark (so nothing is fetched for a target without new records).
IncrementalFetchesOnlyNewRecords ==
    \A b \in BgIds :
        bg[b].outcome = "incremental" =>
            g[b].infoIds \subseteq {i \in NoteIds : i > bg[b].cached.max_id}

\* C4 as stated: a refresh with delta = +3 and a positive cached high-water mark
\* never does a full re-fetch.
DeltaThreeNeverFull ==
    \A b \in BgIds :
        (bg[b].delta = 3 /\ bg[b].cached.max_id > 0) =>
            /\ bg[b].outcome # "full"
            /\ g[b].infoIds \subseteq {i \in NoteIds : i > bg[b].cached.max_id}

\* C4, amended: a refresh with delta = +3, a positive cached high-water mark and a
\* non-empty cached word set never does a full re-fetch: it takes the Unchanged
\* path and never calls get_all_known_expressions.
DeltaThreeWarmNeverFull ==
    \A b \in BgIds :
        (bg[b].delta = 3 /\ bg[b].cached.max_id > 0 /\ bg[b].cached.words # {}) =>
            /\ bg[b].outcome = "unchanged"
            /\ bg[b].pc = "done"
            /\ g[b] = IdleG

\* A refresh has computed delta = +3 over a non-empty cache with a positive mark.
DeltaThreeWarm ==
    \E b \in BgIds :
        /\ bg[b].delta = 3
        /\ bg[b].cached.max_id > 0
        /\ bg[b].cached.words # {}
        /\ bg[b].pc = "done"

\* C5 as stated: whenever |delta| is below the small threshold the reconciliation
\* takes the Unchanged path: no notesInfo call, no cache write, no callback.
SmallDeltaUnchanged ==
    \A b \in BgIds :
        (bg[b].outcome \notin {"none", "skipped"} /\ Abs(bg[b].delta) < SmallThreshold) =>
            /\ bg[b].outcome = "unchanged"
            /\ g[b] = IdleG
            /\ bg[b].callbacks = 0

\* C5, amended: whenever |delta| is below the small threshold and the cached word
\* set is non-empty, the reconciliation takes the Unchanged path: it ends at once
\* with no notesInfo call, no cache write and no callback.
SmallDeltaWarmUnchanged ==
    \A b \in BgIds :
        (bg[b].outcome \notin {"none", "skipped"} /\ Abs(bg[b].delta) < SmallThreshold
            /\ bg[b].cached.words # {}) =>
            /\ bg[b].outcome = "unchanged"
            /\ bg[b].pc = "done"
            /\ g[b].infoIds = {}
            /\ ~g[b].saved
            /\ g[b].pc = "none"
            /\ bg[b].callbacks = 0

\* A refresh over a non-empty cache has seen the count move by one less than the
\* threshold.
SmallDeltaWarm ==
    \E b \in BgIds :
        /\ bg[b].outcome = "unchanged"
        /\ Abs(bg[b].delta) = SmallThreshold - 1
        /\ bg[b].cached.words # {}

OutcomeApplied ==
    [][ /\ (pPc = "phase3" /\ ri' = ri + 1) =>
             IF note_ids[ri] = None
             THEN /\ known_words' = known_words
                  /\ skipped_known' = skipped_known + 1
                  /\ added' = added
             ELSE /\ known_words' = known_words \cup {pending[ri].lemma}
                  /\ added' = added + 1
                  /\ skipped_known' = skipped_known
        /\ (pPc = "phase3" /\ pPc' = "ended") => ri = Len(pending) + 1
      ]_vars

\* A pass has ended whose batch of two had one record accepted and one rejected.
OneAddedOneRejected ==
    /\ pPc = "ended"
    /\ event = "done"
    /\ added = 1
    /\ skipped_known = 1
    /\ \E k1 \in DOMAIN pending : \E k2 \in DOMAIN pending :
         /\ note_ids[k1] = None
         /\ pending[k1].lemma \notin known_words
         /\ note_ids[k2] # None
         /\ pending[k2].lemma \in known_words

\* C8: the outcome list Phase 3 walks has one entry per submitted record, and entry
\* k is the outcome the remote store gave to record k (None when the call failed or
\* gave no result); so also for the empty batch.
OneOutcomePerRecord ==
    pPc = "phase3" =>
        /\ Len(note_ids) = Len(pending)
        /\ \A k \in DOMAIN pending :
             note_ids[k] = IF reply.kind = "list" /\ pending[k].lemma \in reply.accepted
                           THEN IdOf(pending[k].lemma)
                           ELSE None

\* The bulk call failed for a batch of two records and Phase 3 has their outcomes.
FailedBulkCallHasOutcomes ==
    /\ pPc = "phase3"
    /\ reply.kind = "raise"
    /\ Len(pending) = 2
    /\ Len(note_ids) = 2

\* C9: a pass sends at most one addNotes request, and a pass whose addNotes
\* request failed in transport ends with an error event.
BulkFailureIsRunError ==
    /\ addNotesCalls <= 1
    /\ (pPc = "ended" /\ reply.kind = "raise") => event = "error"

\* C10 as stated: for every assembled candidate, an artifact name (clip, frame or
\* word audio) that is in the listing has no task started for it and is what the
\* field of the card refers to.
ListedArtifactReferenced ==
    pPc \in {"assemble", "commit", "phase3", "ended"} =>
        \A k \in DOMAIN pending :
            LET lemma == pending[k].lemma
                clip_name == ArtifactName("clip", lemma)
                frame_name == ArtifactName("frame", lemma)
                audio_name == ArtifactName("word", lemma)
            IN  /\ (payload.input_type = "media" /\ clip_name \in existing_media) =>
                       (clip_name \notin submitted /\ pending[k].fields.SentenceAudio = clip_name)
                /\ (payload.input_type = "media" /\ frame_name \in existing_media) =>
                       (frame_name \notin submitted /\ pending[k].fields.Picture = frame_name)
                /\ (settings.use_word_audio /\ audio_name \in existing_media) =>
                       (audio_name \notin submitted /\ pending[k].fields.ExpressionAudio = audio_name)

\* C10, amended: the same, the frame being referred to only when the source has a
\* picture track (it is not audio only); no task is ever started for a listed name.
ListedArtifactReferencedUnlessAudioOnly ==
    pPc \in {"assemble", "commit", "phase3", "ended"} =>
        /\ submitted \cap existing_media = {}
        /\ \A k \in DOMAIN pending :
            LET lemma == pending[k].lemma
                clip_name == ArtifactName("clip", lemma)
                frame_name == ArtifactName("frame", lemma)
                audio_name == ArtifactName("word", lemma)
            IN  /\ (payload.input_type = "media" /\ clip_name \in existing_media) =>
                       pending[k].fields.SentenceAudio = clip_name
                /\ (payload.input_type = "media" /\ ~payload.audio_only
                        /\ frame_name \in existing_media) =>
                       pending[k].fields.Picture = frame_name
                /\ (settings.use_word_audio /\ audio_name \in existing_media) =>
                       pending[k].fields.ExpressionAudio = audio_name

\* A card went to the commit with its clip, frame and word audio all taken from the
\* listing, while tasks were started for another card of the batch.
AllThreeReused ==
    /\ pPc = "commit"
    /\ payload.input_type = "media"
    /\ ~payload.audio_only
    /\ settings.use_word_audio
    /\ submitted # {}
    /\ \E k \in DOMAIN pending :
         /\ {ArtifactName(kind, pending[k].lemma) : kind \in Kinds} \subseteq existing_media
         /\ pending[k].fields = [SentenceAudio |-> ArtifactName("clip", pending[k].lemma),
                                 Picture |-> ArtifactName("frame", pending[k].lemma),
                                 ExpressionAudio |-> ArtifactName("word", pending[k].lemma)]

(***************************************************************************)
(* Properties of the scan path                                             *)
(***************************************************************************)
\* the lemmas of the items a scan returned
ItemLemmas(ret) == {ret.items[k].lemma : k \in DOMAIN ret.items}

\* C11: when scan_candidates is run again over the same source, a lemma that was
\* a candidate of the previous run and has been inserted into the known words
\* since is not a candidate of the second run when allow_duplicates is off, and
\* is still one when allow_duplicates is on.
RescanHonoursKnownWords ==
    [][ (ScanCandidates /\ scan_ret.kind = "ok" /\ scan_ret'.kind = "ok")
        => \A lemma \in ItemLemmas(scan_ret) \cap known_words :
              IF settings.allow_duplicates
              THEN lemma \in ItemLemmas(scan_ret')
              ELSE lemma \notin ItemLemmas(scan_ret')
      ]_vars

(***************************************************************************)
(* Properties of the candidate collectors                                  *)
(***************************************************************************)
\* the call of a collector has returned
Collected == call.done /\ call.fn \in {"scan_collect", "pass_collect"}

\* C12: every lemma a collector (of the scan path or of the mining pass) accepts
\* as a candidate has at least one ideograph in its written form and is not in the
\* grammar skip-list, whatever the tokens, the known words and the stores.
AcceptedLemmasMinable ==
    Collected =>
        \A k \in DOMAIN call.out :
            /\ HasKanji(Written[call.out[k].lemma])
            /\ Written[call.out[k].lemma] \notin SkipLemmas

\* C12 witness: the mining pass accepted a lemma from a source that also has a
\* grammar verb of the skip-list and a verb written in kana only.
AcceptedBesideSkipped ==
    /\ call.done
    /\ call.fn = "pass_collect"
    /\ call.out # <<>>
    /\ \E i \in DOMAIN call.arg.sents : \E j \in DOMAIN call.arg.sents[i] :
          call.arg.sents[i][j].lemma = 5
    /\ \E i \in DOMAIN call.arg.sents : \E j \in DOMAIN call.arg.sents[i] :
          call.arg.sents[i][j].lemma = 9 /\ 9 \in call.arg.st.dict

\* C13: the items scan_candidates returns hold only lemmas whose frequency rank is
\* at most freq_threshold, and are in ascending order of rank.
ScanItemsSortedByRank ==
    scan_ret.kind = "ok" =>
        /\ \A k \in DOMAIN scan_ret.items :
              GetRank(freq_dict, scan_ret.items[k].lemma) <= settings.freq_threshold
        /\ \A i, j \in DOMAIN scan_ret.items :
              i < j => GetRank(freq_dict, scan_ret.items[i].lemma)
                         <= GetRank(freq_dict, scan_ret.items[j].lemma)

\* the occurrence list the collector of the call built for a lemma
CallOccurrences(lemma) ==
    LET a == call.arg
        passing == IF call.fn = "scan_collect"
                   THEN ScanPassing(a.sents, a.known, a.s, a.st.freq)
                   ELSE PassPassing(a.sents, a.known, a.s, a.st.freq, a.st.dict)
    IN  OccurrencesOf(passing, lemma, a.sents, a.st.freq)

\* the number of other minable tokens, not known, in the sentence of an occurrence
CallCount(lemma, occ) == CountUnknowns(call.arg.sents[occ.sent], lemma, call.arg.known)

\* C14: for each candidate lemma the best sentence is the first occurrence of the
\* lemma's occurrence list whose count of other minable, unknown tokens is the
\* smallest of the list.
BestIsFirstMinimum ==
    Collected =>
        \A k \in DOMAIN call.out :
            LET lemma == call.out[k].lemma
                occs == CallOccurrences(lemma)
            IN  \E i \in DOMAIN occs :
                    /\ call.out[k].best = occs[i]
                    /\ \A j \in DOMAIN occs :
                          CallCount(lemma, occs[i]) <= CallCount(lemma, occs[j])
                    /\ \A j \in 1..(i - 1) :
                          CallCount(lemma, occs[j]) > CallCount(lemma, occs[i])

\* C14 witness: a candidate lemma with two occurrences that both have the smallest
\* count; the earlier one was selected.
TiedMinimumTakesFirst ==
    /\ Collected
    /\ \E k \in DOMAIN call.out :
          LET lemma == call.out[k].lemma
              occs == CallOccurrences(lemma)
          IN  \E i, j \in DOMAIN occs :
                  /\ i < j
                  /\ call.out[k].best = occs[i]
                  /\ CallCount(lemma, occs[i]) = CallCount(lemma, occs[j])
                  /\ \A n \in DOMAIN occs :
                        CallCount(lemma, occs[i]) <= CallCount(lemma, occs[n])

(***************************************************************************)
(* Properties of the end of a mining pass                                  *)
(***************************************************************************)
\* C15: when a pass that was asked to stop during card assembly reports 'stopped'
\* (the event is pushed and _running released), every extraction, fetch and upload
\* task it had dispatched has finished.
StoppedOnlyAfterDrain ==
    (pPc = "ended" /\ event = "stopped") => (tasks = {} /\ upload_queue = {})

\* C16: every mining pass that starts ends: the pass pushes a terminal event (done,
\* stopped or error) and leaves _running released.
PassEndsWithTerminalEvent ==
    (pPc = "spawned") ~> (pPc = "ended" /\ ~running /\ event \in {"done", "stopped", "error"})

\* C16 witness: a pass that had assembled a card ended on an exception.
PassEndedByException ==
    /\ pPc = "ended"
    /\ event = "error"
    /\ ~running
    /\ pending # <<>>

(***************************************************************************)
(* Properties of add_single_card                                           *)
(***************************************************************************)
\* C17: add_single_card called with a lemma that is not in the scan cache returns
\* the 'Run Scan first' error result; it issues no remote request and changes
\* neither the known words, nor the scan cache, nor the collection.
AbsentLemmaIsDefinedError ==
    [][ \A lemma \in AddLemmas :
            (lemma \notin DOMAIN scan_cache /\ AddSingleCard(lemma))
            => /\ add_ret' = AbsentResult
               /\ addRequests' = {}
               /\ known_words' = known_words
               /\ scan_cache' = scan_cache
               /\ remote' = remote
      ]_vars

\* C17 witness: after a scan that selected some lemmas and a card added for one of
\* them, a card was asked for a lemma the selection does not have.
AbsentLemmaAskedAfterScan ==
    /\ add_ret = AbsentResult
    /\ addRequests = {}
    /\ DOMAIN scan_cache # {}
    /\ Len(remote) > 1

(***************************************************************************)
(* Properties of the cache file                                            *)
(***************************************************************************)
\* C18: a cache record written by _save_cache and read back by _load_cache gives
\* the same word set, the same note_count and the same max_note_id.
CacheRoundTrip ==
    (call.fn = "cache" /\ call.done /\ call.saved = "ok")
    => /\ call.out.words = call.arg.words
       /\ call.out.count = call.arg.note_count
       /\ call.out.max_id = call.arg.max_note_id

\* C18 witness: three words, written in an order that is not the ascending one,
\* with a count and a mark that are not the defaults, were read back.
CacheReadBack ==
    /\ call.fn = "cache"
    /\ call.done
    /\ call.saved = "ok"
    /\ Cardinality(call.arg.words) = 3
    /\ call.file.doc["words"][1] = 3
    /\ call.arg.note_count = 2
    /\ call.arg.max_note_id = 1000000

(***************************************************************************)
(* Properties of the furigana alignment                                    *)
(***************************************************************************)
\* the texts of the first n segments, joined
RECURSIVE JoinTexts(_, _)
JoinTexts(segments, n) ==
    IF n = 0 THEN <<>> ELSE JoinTexts(segments, n - 1) \o segments[n].text

\* C19: the texts of the segments _align_furigana returns, joined in order, are
\* the written form, and every kana character of the written form is a segment
\* of its own, at its place, with an empty reading.
AlignRecomposes ==
    (call.fn = "align" /\ call.done)
    => /\ JoinTexts(call.out, Len(call.out)) = call.arg.lemma
       /\ \A i \in DOMAIN call.arg.lemma :
             IsKana(call.arg.lemma[i])
             => \E k \in DOMAIN call.out :
                   /\ Len(JoinTexts(call.out, k - 1)) = i - 1
                   /\ call.out[k].text = <<call.arg.lemma[i]>>
                   /\ call.out[k].furi = <<>>

\* C19 witness: a written form with an ideograph run between kana and a reading
\* that holds the anchor was aligned into three segments.
AlignedAroundKana ==
    /\ call.fn = "align"
    /\ call.done
    /\ call.arg.lemma = <<"be", "SHOKU", "ru">>
    /\ call.arg.reading = <<"be", "ta", "ru">>
    /\ call.out = << [text |-> <<"be">>, furi |-> <<>>],
                     [text |-> <<"SHOKU">>, furi |-> <<"ta">>],
                     [text |-> <<"ru">>, furi |-> <<>>] >>

(***************************************************************************)
(* Properties of the sentence rendering                                    *)
(***************************************************************************)
\* the part carries a reading annotation
Annotated(part) == \E i \in DOMAIN part.segs : part.segs[i].furi # <<>>

\* the tokens of the rendering follow the rule: target unannotated, every other
\* token with an ideograph annotated
RenderingHidesTarget(parts, target_lemma) ==
    \A k \in DOMAIN parts :
        parts[k].token
        => IF parts[k].lemma = target_lemma
           THEN ~Annotated(parts[k])
           ELSE HasKanji(JoinTexts(parts[k].segs, Len(parts[k].segs))) => Annotated(parts[k])

\* C20: in the rendering stored in the card's SentenceFurigana field
\* (sentence_furigana_html), every token of the target lemma carries no reading
\* annotation and every other token with an ideograph is annotated.
CardSentenceHidesTargetReading ==
    (call.fn = "sentence_furigana_html" /\ call.done)
    => RenderingHidesTarget(call.out, call.arg.target_lemma)

(***************************************************************************)
(* Properties of the persisted cache record                                *)
(***************************************************************************)
\* C21: a call of get_all_known_expressions in which a per-target fetch failed
\* (the remote store was unreachable for it) leaves the cache file as it was:
\* the words, the note count and the high-water mark on disk are unchanged.
FailedReconciliationKeepsCacheFile ==
    [][ \A th \in Callers :
          (g[th].pc = "fetch" /\ g'[th].pc = "returned" /\ g[th].failed # {})
          => cacheFile' = cacheFile
      ]_cacheVars

(***************************************************************************)
(* Properties of the batch boundary                                        *)
(***************************************************************************)
\* C22: the addNotes request of a pass is sent only when every task submitted for
\* the batch has finished and every queued upload has been handled, and from the
\* moment the batch is handed to Batch Commit no task or upload is left and no
\* field of a record changes.
CommitAfterEveryTask ==
    [][ /\ (addNotesCalls' > addNotesCalls) => (tasks = {} /\ upload_queue = {})
        /\ (pPc \in {"commit", "phase3"})
             => (pending' = pending /\ tasks' = {} /\ upload_queue' = {})
      ]_vars

\* C22 witness: in upload mode the batch was sent with a clip and a word audio
\* that were extracted, queued and uploaded during the pass.
CommittedAfterUploads ==
    /\ pPc = "phase3"
    /\ addNotesCalls = 1
    /\ ~use_direct_write
    /\ \E k \in DOMAIN pending :
         /\ pending[k].fields.SentenceAudio # Blank
         /\ pending[k].fields.ExpressionAudio # Blank
         /\ ArtifactName("clip", pending[k].lemma) \in submitted
         /\ ArtifactName("word", pending[k].lemma) \in submitted

\* the artifact a field of the record of a lemma refers to
FieldArtifact(field, lemma) ==
    CASE field = "SentenceAudio" -> ArtifactName("clip", lemma)
      [] field = "Picture" -> ArtifactName("frame", lemma)
      [] field = "ExpressionAudio" -> ArtifactName("word", lemma)

\* C23: a step of an extraction, fetch or upload task, failed or not, keeps every
\* record of the batch in its place and the pass going, and changes a field only
\* by setting it to its artifact (a failed task leaves it as it was, blank); and
\* the addNotes request carries every candidate that was assembled.
TaskFailureKeepsBatch ==
    [][ /\ (pPc = "assemble" /\ ci' = ci
              /\ (tasks' # tasks \/ upload_queue' # upload_queue))
             => /\ pPc' = pPc
                /\ event' = event
                /\ DOMAIN pending' = DOMAIN pending
                /\ \A k \in DOMAIN pending :
                      /\ pending'[k].lemma = pending[k].lemma
                      /\ \A f \in DOMAIN pending[k].fields :
                            pending'[k].fields[f]
                              \in {pending[k].fields[f], FieldArtifact(f, pending[k].lemma)}
        /\ (addNotesCalls' > addNotesCalls)
             => /\ Len(note_ids') = Len(pending)
                /\ Len(pending) + skipped_known = Len(results)
                /\ \A k \in DOMAIN pending : SeqContains(results, pending[k].lemma)
      ]_vars

\* C23 witness: a batch of two records was sent although the clip extraction and
\* the word-audio fetch started for one of them gave nothing: its fields are blank.
BatchSentWithBlankFields ==
    /\ pPc = "phase3"
    /\ addNotesCalls = 1
    /\ Len(pending) = 2
    /\ \E k \in DOMAIN pending :
         /\ ArtifactName("clip", pending[k].lemma) \in submitted
         /\ ArtifactName("word", pending[k].lemma) \in submitted
         /\ pending[k].fields.SentenceAudio = Blank
         /\ pending[k].fields.ExpressionAudio = Blank

(***************************************************************************)
(* Properties of the merge                                                 *)
(***************************************************************************)
\* the values a full fetch of every target gives, taken together
UnionOfTargets(targets) ==
    UNION { {ExtractFieldValue(remote[i], targets[k][2]) : i \in FindNotes(targets[k][1])} \ {0}
            : k \in DOMAIN targets }

\* C24: a full reconciliation whose per-target fetches all succeeded merges only
\* when every fetch thread has finished, and returns the union over the configured
\* [collection, field] targets of the values fetched, also when two targets name
\* the same collection with different fields.
FullMergeIsUnionOfTargets ==
    [][ \A th \in Callers :
          (g[th].pc = "fetch" /\ g'[th].pc = "returned" /\ g[th].failed = {}
             /\ g[th].inc = NoInc /\ g[th].base = {})
          => /\ g[th].pending = {}
             /\ g'[th].ret.words = UnionOfTargets(g[th].targets)
      ]_cacheVars

(***************************************************************************)
(* Properties of the callers that wait for _fetch_lock                     *)
(***************************************************************************)
\* C25: a call of get_all_known_expressions that found the lock held by a
\* reconciliation in flight passes no record to notesInfo of its own: it takes
\* the result of the reconciliation it waited for.
WaiterIssuesNoFetch ==
    \A th \in Callers : g[th].waited => g[th].infoIds = {}

(***************************************************************************)
(* Properties of concurrent add_single_card calls                          *)
(***************************************************************************)
\* C26: add_single_card holds no lock between its duplicate checks and its
\* insert: whatever the other call is doing, a call can take its next step (start
\* its checks, query the deck, send its addNote request).
AddTakesNoLock ==
    \A t \in AddThreads :
        /\ adders[t].pc = "idle" => ENABLED AddEnter(t)
        /\ adders[t].pc = "deck" => ENABLED AddDeckCheck(t)
        /\ adders[t].pc = "insert" => ENABLED AddInsert(t)

\* C26 witness: under skip-known, two calls for the same lemma have both passed
\* the known-word check and the in-deck check and have both sent an addNote
\* request to the remote store.
BothCallsSentInsert ==
    /\ ~settings.allow_duplicates
    /\ \E lemma \in AddLemmas :
         \A t \in AddThreads :
            /\ adders[t].lemma = lemma
            /\ adders[t].sent
            /\ adders[t].ret \notin {"absent", "known", "in_deck"}

\* C27: at most one mining pass is active at any time: no second _process_thread
\* thread is started while one has been started and has not ended.
OnePassAtATime ==
    Cardinality({p \in ProcIds : procs[p].pc \notin {"none", "ended"}}) <= 1

\* C28: a stop request is never lost: a pass that was started and had not left
\* its assembly loop when stop_processing was called never polls the flag and
\* goes on, and it ends with 'stopped' (or with the 'error' of a failed input).
StopRequestObserved ==
    \A p \in ProcIds :
        procs[p].asked =>
            /\ ~procs[p].missed
            /\ procs[p].pc = "ended" => procs[p].event \in {"stopped", "error"}

\* C29: a lemma added to _known_words after an accepted commit is never lost:
\* whatever replacement of the set by a reconciliation's result comes in between
\* or afterwards, every lemma Phase 3 has added for an accepted note stays a member.
AcceptedLemmaStaysKnown ==
    pPc \in {"phase3", "ended"} =>
        \A k \in 1..Min(Len(pending), Len(note_ids)) :
            (k < ri /\ note_ids[k] # None) => pending[k].lemma \in known_words

\* C30: the high-water mark of a persisted cache record is sound: every note of
\* a configured target whose identifier is at most the persisted max_note_id has
\* its field value in the persisted word set, also when a per-target fetch of the
\* reconciliation that wrote the record failed.  (Under SpecLock the collection
\* does not change, so every note existed when the reconciliation fetched.)
HighWaterMarkSound ==
    (cacheFile.present /\ cacheFile.readable) =>
        \A i \in DOMAIN remote : \A k \in DOMAIN KnownWordTargets :
            (/\ i <= cacheFile.max_note_id
             /\ remote[i].type = KnownWordTargets[k][1]
             /\ ExtractFieldValue(remote[i], KnownWordTargets[k][2]) # 0)
            => ExtractFieldValue(remote[i], KnownWordTargets[k][2]) \in cacheFile.words

====
